---- MODULE Spec2Model ----
(***************************************************************************)
(* A model of the openchaos-feed ingestion pipeline: the deduplicating     *)
(* event store (internal/feed/store.go over the events table of            *)
(* internal/db/migrations), the event normalizer and event-feed loop       *)
(* (internal/feed/ingester.go), the backfill producer                      *)
(* (cmd/backfill/main.go), the feed list handler                           *)
(* (internal/api/feed_handler.go) and the rate-limit header reader of the  *)
(* GitHub client.                                                          *)
(***************************************************************************)
EXTENDS Integers, Sequences, FiniteSets, TLC

VARIABLES
    events,     \* the rows of the events table
    last,       \* what the most recent store call returned to its caller
    inflight,   \* per producer, the INSERT statement it has begun and not finished
    pager,      \* a client of GET /api/feed walking the pages of one listing
    openPRs,    \* Ingester.openPRs, the pull requests tracked for reaction polling
    poll,       \* the events poller: status, position in its cycle, quota backoff
    backfill,   \* the backfill job: the step it is in and the items left in it
    thread,     \* per comment, the versions GitHub holds of it: body and time
    life,       \* the Ingester's goroutines, stopCh, WaitGroup and Once; the server's shutdown
    reactions,  \* the reactions poller: cycle counter, status, position in its cycle
    discussions,\* the discussions poller: status, position in its cycle
    export,     \* one GET /api/feed/export request being streamed
    delivery,   \* the raw batch the events feed delivers, and how often it has
    before,     \* the table as it was when the observed operation began
    fetch,      \* one paginated fetch of the GitHub client and what its caller does with it
    intake,     \* the events loop's saved ETag, the feed GitHub holds, the last cycle
    norm,       \* the raw event parseGitHubEvent was last given and what came of it
    cache,      \* the PRCache shared by the GitHub client's callers, and the clock
    limiter,    \* a RateLimiter: the sliding window of each key, the Allow calls under way
    guard       \* the export route: the semaphore's slots and the requests in the middleware

vars == <<events, last, inflight, pager, openPRs, poll, backfill, thread,
          life, reactions, discussions, export, delivery, before, fetch, intake, norm,
          cache, limiter, guard>>

\* the variables the sequential store calls leave alone
concVars == <<inflight>>

\* the variables of the paging client
pageVars == <<pager>>

\* the variables of the events poller and of the backfill job
feedVars == <<openPRs, poll, backfill>>

\* what GitHub holds
ghVars == <<thread>>

\* the goroutine lifecycle of the Ingester and of the server around it
lifeVars == <<life>>

\* the reactions and discussions pollers
loopVars == <<reactions, discussions>>

\* the export stream
exportVars == <<export>>

\* what is kept to compare the table with later
obsVars == <<delivery, before>>

\* the variables of the client's pagination, of the events loop's saved
\* validator and of the normalizer looked at one raw event at a time
intakeVars == <<fetch, intake, norm>>

\* the variables of the open pull request cache and of the API's rate limiting
svcVars == <<cache, limiter, guard>>

(***************************************************************************)
(* Nullable columns and Go pointer fields: Null is SQL NULL / a nil        *)
(* pointer, Some(v) a present value.                                       *)
(***************************************************************************)
Null == <<>>

Some(v) == <<v>>

(***************************************************************************)
(* Bounds of the model.                                                    *)
(***************************************************************************)
MaxRows == 2

Users == {"alice", "bob"}

(***************************************************************************)
(* computeContentHash: SHA-256 of the payload bytes, hex encoded.  The     *)
(* digest is modelled as a collision-free tag of the payload.              *)
(***************************************************************************)
computeContentHash(payload) == <<"sha256", payload>>

(***************************************************************************)
(* The Event struct a producer hands to Store.Insert.  ID and IngestedAt   *)
(* are left at their zero values by every producer; Insert fills them in   *)
(* from RETURNING id, ingested_at.                                         *)
(***************************************************************************)
Event(type, user, userId, pr, issue, discussion, comment, choice, reaction, githubId, payload, occurredAt) ==
    [ type |-> type, github_user |-> user, github_user_id |-> userId,
      pr_number |-> pr, issue_number |-> issue, discussion_number |-> discussion,
      comment_id |-> comment, choice |-> choice, reaction_type |-> reaction,
      github_id |-> githubId, payload |-> payload,
      content_hash |-> computeContentHash(payload), occurred_at |-> occurredAt ]

(***************************************************************************)
(* Store.Insert, the INSERT ... SELECT ... WHERE NOT EXISTS ... ON         *)
(* CONFLICT (github_id) DO NOTHING RETURNING id, ingested_at statement.    *)
(***************************************************************************)
\* (mutant) the statement without its content NOT EXISTS clause
ContentDuplicate_Absent(S, n) == FALSE

\* first NOT EXISTS: a row with the same content_hash, type, github_user, occurred_at
ContentDuplicate(S, n) ==
    \E e \in S : /\ e.content_hash = n.content_hash
                 /\ e.type = n.type
                 /\ e.github_user = n.github_user
                 /\ e.occurred_at = n.occurred_at

\* (mutant) the statement without its star/fork NOT EXISTS clause
StarForkDuplicate_Absent(S, n) == FALSE

\* second NOT EXISTS: stars and forks, one per user
StarForkDuplicate(S, n) ==
    \E e \in S : /\ e.type = n.type
                 /\ e.github_user = n.github_user
                 /\ n.type \in {"star", "fork"}

\* CONSTRAINT unique_github_id UNIQUE (github_id): NULLs never conflict
GitHubIDConflict(S, n) ==
    /\ n.github_id # Null
    /\ \E e \in S : e.github_id = n.github_id

\* the WHERE clause of the INSERT ... SELECT, evaluated on the rows S it sees
InsertSelects(S, n) == ~ContentDuplicate(S, n) /\ ~StarForkDuplicate(S, n)

\* gen_random_uuid(): an identifier no row has.  The identifier is opaque and
\* only its order matters, to pagination, whose specification draws the
\* (occurred_at, id) pairs in every order; elsewhere the least unused one stands
\* for whichever value the database draws.
FreshIDs(S) == (1 .. Cardinality(S) + 1) \ { e.id : e \in S }

NewID(S) == CHOOSE i \in FreshIDs(S) : \A j \in FreshIDs(S) : i <= j

\* the row written for n: id and ingested_at from the column defaults,
\* edit_history from DEFAULT '[]' (migration 007)
NewRow(n, id) ==
    [ id |-> id, type |-> n.type, github_user |-> n.github_user,
      github_user_id |-> n.github_user_id, pr_number |-> n.pr_number,
      issue_number |-> n.issue_number, discussion_number |-> n.discussion_number,
      comment_id |-> n.comment_id, choice |-> n.choice,
      reaction_type |-> n.reaction_type, github_id |-> n.github_id,
      payload |-> n.payload, content_hash |-> n.content_hash,
      edit_history |-> <<>>, occurred_at |-> n.occurred_at,
      ingested_at |-> "now()" ]

\* the table after the statement: one more row, or the same table when the
\* WHERE clause selects nothing or ON CONFLICT DO NOTHING applies
InsertRows(S, n, id) ==
    IF InsertSelects(S, n) /\ ~GitHubIDConflict(S, n)
    THEN S \cup {NewRow(n, id)}
    ELSE S

\* (mutant) pgx.ErrNoRows handed back as an error instead of nil
InsertReturn_ErrNoRows(S, n, id, dbUp) ==
    IF dbUp /\ InsertSelects(S, n) /\ ~GitHubIDConflict(S, n)
    THEN [ err |-> "nil", ID |-> Some(id), IngestedAt |-> Some("now()") ]
    ELSE [ err |-> "failed to insert event", ID |-> Null, IngestedAt |-> Null ]

\* what Insert hands back: the error, and the event's ID and IngestedAt after
\* Scan (pgx.ErrNoRows is turned into nil and leaves both fields untouched)
InsertReturn(S, n, id, dbUp) ==
    IF ~dbUp
    THEN [ err |-> "failed to insert event", ID |-> Null, IngestedAt |-> Null ]
    ELSE IF InsertSelects(S, n) /\ ~GitHubIDConflict(S, n)
         THEN [ err |-> "nil", ID |-> Some(id), IngestedAt |-> Some("now()") ]
         ELSE [ err |-> "nil", ID |-> Null, IngestedAt |-> Null ]

(***************************************************************************)
(* The store under a sequence of Insert calls.  The events handed in are   *)
(* the ones the producers build: a star (WatchEvent with the feed event's  *)
(* id or none, backfill stargazer with the user's id), a fork (always with *)
(* the forkee's id) and a push (the feed event's id or none).              *)
(***************************************************************************)
UserID(u) == IF u = "alice" THEN 1 ELSE 2

GitHubIDs == {Null, Some(100), Some(200)}

Payloads == {"A", "B"}

StarInputs ==
    { Event("star", u, UserID(u), Null, Null, Null, Null, Null, Null, g, p, 1) :
        u \in Users, g \in GitHubIDs, p \in Payloads }

ForkInputs ==
    { Event("fork", "alice", UserID("alice"), Null, Null, Null, Null, Null, Null, g, p, 1) :
        g \in GitHubIDs \ {Null}, p \in Payloads }

PushInputs ==
    { Event("push", "alice", UserID("alice"), Null, Null, Null, Null, Null, Null, g, p, 1) :
        g \in GitHubIDs, p \in Payloads }

EventInputs == StarInputs \cup ForkInputs \cup PushInputs

NoCall ==
    [ op |-> "none", arg |-> Null, dbUp |-> TRUE, err |-> "nil", ID |-> Null,
      IngestedAt |-> Null, changed |-> FALSE, rep |-> 0, firstID |-> Null ]

\* the poller before its first cycle: eventsStatus is the zero string, the
\* first poll is due at once ("Poll immediately on startup")
NoPoll ==
    [ pc |-> "idle", eventsStatus |-> "", due |-> TRUE, left |-> 0, dbErrors |-> 0,
      quiet |-> 0, early |-> 0 ]

\* the comments of the repository
CommentIDs == {1, 2}

\* the backfill job not started
NoBackfill == [ pc |-> "idle", left |-> 0 ]

\* a client of GET /api/feed that has not asked for anything yet
NoPager ==
    [ state |-> "idle", filters |-> Null, sort |-> "", limit |-> Null,
      cursor |-> Null, got |-> <<>>, pages |-> 0 ]

\* the three poll loops Run starts
Loops == {"events", "reactions", "discussions"}

\* the goroutines that call Stop: the server's shutdown sequence and one more
Callers == {"server", "other"}

\* the Ingester as NewIngester leaves it and the server before it calls Run:
\* no goroutine started, stopCh open, the WaitGroup at zero, the Once unused
NoLife ==
    [ loop |-> [ l \in Loops |-> [ pc |-> "none", tick |-> FALSE, work |-> 0 ] ],
      stopCh |-> "open", ctx |-> "live", wg |-> 0, stopOnce |-> "unused",
      stop |-> [ c \in Callers |-> "idle" ],
      returned |-> FALSE, database |-> "open" ]

\* the reactions poller before its first cycle
\* prCache holds the numbers the client's PRCache lists as open and not expired;
\* sinceFullScan counts the cycles begun since the last full-scan cycle and
\* sinceAllListed those begun since the last cycle whose list held every
\* pull request, the closed ones included
NoReactions ==
    [ pc |-> "idle", reactionsStatus |-> "", reactionsCycle |-> 0, pollAll |-> FALSE,
      prNumbers |-> {}, polled |-> {}, prNum |-> 0, left |-> 0, dbErrors |-> 0,
      prCache |-> {}, early |-> 0, sinceFullScan |-> 0, sinceAllListed |-> 0 ]

\* the discussions poller before its first cycle
\* failed counts the store writes that have failed in a row in the cycle; the
\* code keeps no such count for this loop; queue holds the events of the
\* answer whose insert is still to come, tried those handed to Store.Insert
\* in the cycle
NoDiscussions ==
    [ pc |-> "idle", discussionsStatus |-> "", left |-> 0, failed |-> 0, early |-> 0,
      queue |-> <<>>, tried |-> <<>> ]

\* no batch delivered yet
NoDelivery == [ batch |-> <<>>, cycles |-> 0, total |-> 0 ]

\* no export request in progress
NoExport ==
    [ state |-> "idle", status |-> 0, filters |-> Null, sort |-> "", format |-> "",
      cursor |-> Null, written |-> <<>>, flushed |-> 0, totalExported |-> 0,
      end |-> "" ]

\* the live event poller and the backfill job, two processes on one database
Producers == {"poller", "backfill"}

\* the GitHub client with no paginated fetch under way
NoFetch ==
    [ endpoint |-> "", state |-> "idle", page |-> 0, requests |-> 0, items |-> 0,
      result |-> 0, err |-> FALSE, failed |-> FALSE, ingested |-> 0 ]

\* the events loop before its first cycle: no ETag saved (0 stands for the
\* empty string), and the feed GitHub holds, whose ETag is its length plus one;
\* of the last cycle: the If-None-Match sent, the answer, the batch, the
\* database's state at each raw event, the raw events left unprocessed, those
\* the cycle before had left, the breaker count and openPRs as it was before
NoIntake ==
    [ lastEventETag |-> 0, feed |-> <<>>, sent |-> 0, answer |-> "", batch |-> <<>>,
      up |-> <<>>, left |-> <<>>, owed |-> <<>>, dbErrors |-> 0, openBefore |-> {} ]

\* NewPRCache: no entry.  now is the clock the entries' CachedAt is read
\* against, ret what the last call on the cache returned, when, and the map it
\* found, and written the history the cache is compared with: per number the
\* last UpdatePR that no DeletePR or Clear has followed
NoCache ==
    [ prs |-> {}, now |-> 0, written |-> {},
      ret |-> [ op |-> "none", arg |-> Null, out |-> Null, at |-> 0, had |-> {} ] ]

\* the clients the limiter keys its windows by (GetClientIP), and the
\* goroutines that serve requests
ClientKeys == {"ip1", "ip2"}
MaxGoroutines == 4
Goroutines == 1 .. MaxGoroutines

\* a goroutine outside Allow
NoAllow == [ pc |-> "idle", key |-> "", now |-> 0, sw |-> 0, out |-> FALSE ]

\* NewRateLimiter: no window in the map, both kinds of mutex free (0; a
\* goroutine holds one under its number, the cleanup goroutine under -1), the
\* ticker armed one window after construction.  sw holds every slidingWindow
\* ever allocated, windows the index of the one the map has for a key (0:
\* none), allowed the log of the calls that returned true: the time.Now()
\* the call read and the time it returned at
NoLimiter ==
    [ windows |-> [ k \in ClientKeys |-> 0 ], sw |-> <<>>, mu |-> 0,
      call |-> [ t \in Goroutines |-> NoAllow ],
      cleanup |-> [ pc |-> "wait", now |-> 0, todo |-> {} ],
      clock |-> 0, ticks |-> 0, allowed |-> <<>> ]

\* a goroutine outside the export route
NoRequest == [ pc |-> "idle", status |-> 0, held |-> FALSE ]

\* ExportSemaphore: no element in the channel, no request in the middleware.
\* requests counts the requests that have arrived
NoGuard == [ slots |-> 0, req |-> [ t \in Goroutines |-> NoRequest ], requests |-> 0 ]

\* parseGitHubEvent not called yet; of its last call: the raw event, the feed
\* events and the error it returned, and the store call it made itself
NoNorm == [ raw |-> Null, events |-> <<>>, err |-> "nil", call |-> NoCall ]

Init ==
    /\ events = {}
    /\ last = NoCall
    /\ inflight = [ p \in Producers |-> Null ]
    /\ pager = NoPager
    /\ openPRs = {}
    /\ poll = NoPoll
    /\ backfill = NoBackfill
    /\ thread = [ c \in CommentIDs |-> <<>> ]
    /\ life = NoLife
    /\ reactions = NoReactions
    /\ discussions = NoDiscussions
    /\ export = NoExport
    /\ delivery = NoDelivery
    /\ before = {}
    /\ fetch = NoFetch
    /\ intake = NoIntake
    /\ norm = NoNorm
    /\ cache = NoCache
    /\ limiter = NoLimiter
    /\ guard = NoGuard

\* a caller repeats its previous call when it hands in the same event again,
\* both calls having reached the database
Repeats(n) == last.op = "Insert" /\ last.err = "nil" /\ last.arg = n

\* Store.Insert(ctx, event)
Insert(n) ==
    LET id == NewID(events)
        ret == InsertReturn(events, n, id, TRUE) IN
        /\ InsertRows(events, n, id) # events => Cardinality(events) < MaxRows
        /\ events' = InsertRows(events, n, id)
        /\ last' = [ op |-> "Insert", arg |-> n, dbUp |-> TRUE, err |-> ret.err, ID |-> ret.ID,
                     IngestedAt |-> ret.IngestedAt,
                     changed |-> InsertRows(events, n, id) # events,
                     rep |-> IF ret.err = "nil" /\ Repeats(n) THEN 2 ELSE 1,
                     firstID |-> IF ret.err = "nil" /\ Repeats(n) THEN last.firstID ELSE ret.ID ]
        /\ UNCHANGED <<concVars, pageVars, feedVars, ghVars, lifeVars, loopVars, exportVars, obsVars, intakeVars,
                   svcVars>>

Next == \E n \in EventInputs : Insert(n)

Spec == Init /\ [][Next]_vars

(***************************************************************************)
(* Insert under concurrent producers.  The poller (a goroutine of the      *)
(* server) and the backfill job (another process) share the database       *)
(* through connection pools; each Insert is one autocommitted statement.   *)
(* PostgreSQL runs it under READ COMMITTED: the statement evaluates its     *)
(* WHERE NOT EXISTS subqueries on the snapshot taken when it begins, and    *)
(* only the unique index on github_id is checked against the rows present   *)
(* when the new row is written.                                             *)
(***************************************************************************)
\* WatchEvent and ForkEvent as the poller builds them: the star carries the feed
\* event's id (or none), the fork the forkee's id
PollerInputs ==
    { Event("star", u, UserID(u), Null, Null, Null, Null, Null, Null, g, "A", 1) :
        u \in Users, g \in {Null, Some(100)} }
    \cup { Event("fork", "alice", UserID("alice"), Null, Null, Null, Null, Null, Null, Some(200), "A", 1) }
    \cup { Event("push", "alice", UserID("alice"), Null, Null, Null, Null, Null, Null, g, "A", 1) :
        g \in {Null, Some(100)} }

\* stargazers and forks as the backfill builds them: the star carries the
\* user's id, the fork the fork's id, the payload is the re-marshalled object
BackfillInputs ==
    { Event("star", u, UserID(u), Null, Null, Null, Null, Null, Null, Some(UserID(u)), "B", 1) :
        u \in Users }
    \cup { Event("fork", "alice", UserID("alice"), Null, Null, Null, Null, Null, Null, Some(200), "B", 1) }

ProducerInputs(p) == IF p = "poller" THEN PollerInputs ELSE BackfillInputs

\* the statement begins: its snapshot is the table as it is now, and the WHERE
\* clause is decided on it
InsertBegin(p, n) ==
    /\ inflight[p] = Null
    /\ inflight' = [ inflight EXCEPT ![p] = Some([ event |-> n, selects |-> InsertSelects(events, n) ]) ]
    /\ UNCHANGED <<events, last, pageVars, feedVars, ghVars, lifeVars, loopVars, exportVars, obsVars, intakeVars,
                   svcVars>>

\* the statement writes its row, unless the WHERE clause selected nothing or
\* the unique index on github_id holds the identifier by now, and commits
InsertEnd(p) ==
    /\ inflight[p] # Null
    /\ LET st == inflight[p][1]
           writes == st.selects /\ ~GitHubIDConflict(events, st.event) IN
        /\ writes => Cardinality(events) < MaxRows
        /\ events' = IF writes THEN events \cup {NewRow(st.event, NewID(events))} ELSE events
    /\ inflight' = [ inflight EXCEPT ![p] = Null ]
    /\ UNCHANGED <<last, pageVars, feedVars, ghVars, lifeVars, loopVars, exportVars, obsVars, intakeVars,
                   svcVars>>

NextConc ==
    \/ \E p \in Producers : \E n \in ProducerInputs(p) : InsertBegin(p, n)
    \/ \E p \in Producers : InsertEnd(p)

SpecConc == Init /\ [][NextConc]_vars

(***************************************************************************)
(* GET /api/feed: Store.List over a fixed table, page after page.          *)
(***************************************************************************)
MaxPageRows == 3
MaxTime == 2

NoFilters ==
    [ Types |-> {}, PRNumber |-> Null, GitHubUser |-> Null, Since |-> Null,
      Until |-> Null, ExcludeCommentReactions |-> FALSE ]

\* the WHERE clauses listInternal adds for the filters
Matches(e, f) ==
    /\ f.Types # {} => e.type \in f.Types
    /\ f.PRNumber # Null => e.pr_number = f.PRNumber
    /\ f.GitHubUser # Null => Some(e.github_user) = f.GitHubUser
    /\ f.Since # Null => e.occurred_at >= f.Since[1]
    /\ f.Until # Null => e.occurred_at <= f.Until[1]
    /\ f.ExcludeCommentReactions => ~(e.type = "reaction" /\ e.comment_id # Null)

\* the row comparison (occurred_at, id) < (occurred_at, id)
RowLess(a, b) ==
    \/ a.occurred_at < b.occurred_at
    \/ a.occurred_at = b.occurred_at /\ a.id < b.id

\* (occurred_at, id) op (SELECT occurred_at, id FROM events WHERE id = $cursor),
\* compared on occurred_at alone
AfterCursor_TimeOnly(e, S, sort, cursor) ==
    \/ cursor = Null
    \/ \E c \in S :
          /\ c.id = cursor[1]
          /\ IF sort = "oldest" THEN c.occurred_at < e.occurred_at
                                ELSE e.occurred_at < c.occurred_at

\* (mutant) the cursor compared on id alone: WHERE id op $cursor
AfterCursor_IDOnly(e, S, sort, cursor) ==
    \/ cursor = Null
    \/ IF sort = "oldest" THEN cursor[1] < e.id ELSE e.id < cursor[1]

\* (occurred_at, id) op (SELECT occurred_at, id FROM events WHERE id = $cursor):
\* op is > for oldest and < otherwise; no row with that id gives NULL, and no
\* row passes
AfterCursor(e, S, sort, cursor) ==
    \/ cursor = Null
    \/ \E c \in S :
          /\ c.id = cursor[1]
          /\ IF sort = "oldest" THEN RowLess(c, e) ELSE RowLess(e, c)

\* ORDER BY occurred_at ASC, id ASC for oldest, DESC, DESC otherwise
OrderBy(R, sort) ==
    [ i \in 1 .. Cardinality(R) |->
        CHOOSE r \in R :
            Cardinality({ o \in R : IF sort = "oldest" THEN RowLess(o, r)
                                                        ELSE RowLess(r, o) }) = i - 1 ]

\* LIMIT n
Limit(rows, n) == SubSeq(rows, 1, IF Len(rows) < n THEN Len(rows) ELSE n)

listInternal(S, f, sort, limit, cursor) ==
    Limit(OrderBy({ e \in S : Matches(e, f) /\ AfterCursor(e, S, sort, cursor) }, sort), limit)

List(S, f, sort, limit, cursor) ==
    listInternal(S, f, sort, IF limit <= 0 \/ limit > 100 THEN 50 ELSE limit, cursor)

Count(S, f) == Cardinality({ e \in S : Matches(e, f) })

\* FeedHandler.List: the query parameters sort, limit and cursor are absent
\* (Null, "" for sort) or given
FeedHandlerList(S, f, sortParam, limitParam, cursorParam) ==
    LET sort == IF sortParam = "" THEN "newest" ELSE sortParam
        limit == IF limitParam # Null /\ limitParam[1] > 0 /\ limitParam[1] <= 100
                 THEN limitParam[1] ELSE 50
        rows == List(S, f, sort, limit, cursorParam)
    IN [ Events |-> rows,
         NextCursor |-> IF Len(rows) = limit /\ Len(rows) > 0
                        THEN Some(rows[Len(rows)].id) ELSE Null,
         TotalCount |-> Count(S, f) ]

\* the tables the listing is walked over: up to MaxPageRows rows with ids
\* 1..MaxPageRows, each with an occurred_at in 1..MaxTime, so that rows share
\* timestamps, and ids in either order of time
PageTypes == {"push", "release"}

PageRow(id, t, ty) ==
    NewRow(Event(ty, "alice", UserID("alice"), Null, Null, Null, Null, Null, Null,
                 Null, ToString(id), t), id)

PageStores ==
    UNION { { { PageRow(i, a[i].t, a[i].ty) : i \in I } :
                a \in [ I -> [ t : 1 .. MaxTime, ty : PageTypes ] ] } :
            I \in SUBSET (1 .. MaxPageRows) }

\* the query strings of the client: type, since and pr filters, sort and limit
PageFilters ==
    { NoFilters,
      [ NoFilters EXCEPT !.Types = {"push"} ],
      [ NoFilters EXCEPT !.Since = Some(2) ],
      [ NoFilters EXCEPT !.PRNumber = Some(1) ] }

SortParams == {"", "newest", "oldest"}

LimitParams == {Null, Some(0), Some(1), Some(2)}

InitPage ==
    /\ events \in PageStores
    /\ last = NoCall
    /\ inflight = [ p \in Producers |-> Null ]
    /\ pager = NoPager
    /\ openPRs = {}
    /\ poll = NoPoll
    /\ backfill = NoBackfill
    /\ thread = [ c \in CommentIDs |-> <<>> ]
    /\ life = NoLife
    /\ reactions = NoReactions
    /\ discussions = NoDiscussions
    /\ export = NoExport
    /\ delivery = NoDelivery
    /\ before = {}
    /\ fetch = NoFetch
    /\ intake = NoIntake
    /\ norm = NoNorm
    /\ cache = NoCache
    /\ limiter = NoLimiter
    /\ guard = NoGuard

IDs(rows) == [ i \in 1 .. Len(rows) |-> rows[i].id ]

\* the client's view of one response: it appends the page and keeps next_cursor
Received(f, sortParam, limitParam, resp) ==
    [ state |-> IF resp.NextCursor = Null THEN "done" ELSE "paging",
      filters |-> f, sort |-> sortParam, limit |-> limitParam,
      cursor |-> resp.NextCursor,
      got |-> pager.got \o IDs(resp.Events),
      pages |-> pager.pages + 1 ]

\* GET /api/feed?type=..&since=..&pr=..&sort=..&limit=..
ListFirst(f, sortParam, limitParam) ==
    /\ pager.state = "idle"
    /\ pager' = Received(f, sortParam, limitParam,
                         FeedHandlerList(events, f, sortParam, limitParam, Null))
    /\ UNCHANGED <<events, last, concVars, feedVars, ghVars, lifeVars, loopVars, exportVars, obsVars, intakeVars,
                   svcVars>>

\* the same request with cursor=<next_cursor of the previous response>
ListNext ==
    /\ pager.state = "paging"
    /\ pager' = Received(pager.filters, pager.sort, pager.limit,
                         FeedHandlerList(events, pager.filters, pager.sort,
                                         pager.limit, pager.cursor))
    /\ UNCHANGED <<events, last, concVars, feedVars, ghVars, lifeVars, loopVars, exportVars, obsVars, intakeVars,
                   svcVars>>

\* a table with rows in it, remembered as it is before the first page request
InitTraversal ==
    /\ events \in PageStores
    /\ last = NoCall
    /\ inflight = [ p \in Producers |-> Null ]
    /\ pager = NoPager
    /\ openPRs = {}
    /\ poll = NoPoll
    /\ backfill = NoBackfill
    /\ thread = [ c \in CommentIDs |-> <<>> ]
    /\ life = NoLife
    /\ reactions = NoReactions
    /\ discussions = NoDiscussions
    /\ export = NoExport
    /\ delivery = NoDelivery
    /\ before = events
    /\ fetch = NoFetch
    /\ intake = NoIntake
    /\ norm = NoNorm
    /\ cache = NoCache
    /\ limiter = NoLimiter
    /\ guard = NoGuard

\* the events that arrive while the client is between two pages: one older
\* than every row and one as new as the newest
TraversalInputs ==
    { Event("push", "alice", UserID("alice"), Null, Null, Null, Null, Null, Null,
            Null, "new", t) : t \in {1, MaxTime} }

\* Store.Insert(ctx, n) while the client is between two pages
PageInsert(n) ==
    /\ pager.state = "paging"
    /\ LET id == NewID(events)
           ret == InsertReturn(events, n, id, TRUE)
       IN /\ events' = InsertRows(events, n, id)
          /\ last' = [ op |-> "Insert", arg |-> n, dbUp |-> TRUE, err |-> ret.err,
                       ID |-> ret.ID, IngestedAt |-> ret.IngestedAt,
                       changed |-> InsertRows(events, n, id) # events,
                       rep |-> 1, firstID |-> ret.ID ]
    /\ UNCHANGED <<concVars, pageVars, feedVars, ghVars, lifeVars, loopVars, exportVars,
                   obsVars, intakeVars, svcVars>>

\* the traversals followed: all rows or one type, either direction, pages of
\* one or two rows
TraversalFilters == { NoFilters, [ NoFilters EXCEPT !.Types = {"push"} ] }

NextTraversal ==
    \/ \E f \in TraversalFilters, sp \in {"newest", "oldest"}, lp \in {Some(1), Some(2)} :
          ListFirst(f, sp, lp)
    \/ ListNext
    \/ \E n \in TraversalInputs : PageInsert(n)

SpecTraversal == InitTraversal /\ [][NextTraversal]_vars

NextPage ==
    \/ \E f \in PageFilters, sp \in SortParams, lp \in LimitParams : ListFirst(f, sp, lp)
    \/ ListNext

SpecPage == InitPage /\ [][NextPage]_vars

(***************************************************************************)
(* The store's mutations of comment rows and its bulk delete.              *)
(***************************************************************************)
MaxEdits == 3

\* what a store call that hands back only an error leaves in last
Called(op, arg, dbUp, err, changed) ==
    [ op |-> op, arg |-> arg, dbUp |-> dbUp, err |-> err, ID |-> Null,
      IngestedAt |-> Null, changed |-> changed, rep |-> 0, firstID |-> Null ]

\* (mutant) the edit entry appended: edit_history || $4::jsonb
UpdateCommentEditRows_Append(S, commentID, newPayload, previousBody, editedAt) ==
    { IF r.comment_id = Some(commentID)
      THEN [ r EXCEPT !.payload = newPayload,
                      !.content_hash = computeContentHash(newPayload),
                      !.edit_history = @ \o << [ body |-> previousBody, editedAt |-> editedAt ] >> ]
      ELSE r : r \in S }

\* UPDATE events SET payload = $2, content_hash = $3,
\*   edit_history = $4::jsonb || edit_history WHERE comment_id = $1
UpdateCommentEditRows(S, commentID, newPayload, previousBody, editedAt) ==
    { IF r.comment_id = Some(commentID)
      THEN [ r EXCEPT !.payload = newPayload,
                      !.content_hash = computeContentHash(newPayload),
                      !.edit_history = << [ body |-> previousBody, editedAt |-> editedAt ] >> \o @ ]
      ELSE r : r \in S }

\* (mutant) zero rows affected taken for success
ByCommentIDReturn_NoCheck(S, commentID, dbUp, failure) ==
    IF ~dbUp THEN failure ELSE "nil"

\* the error UpdateCommentEdit and DeleteByCommentID hand back: the wrapped
\* database error, "comment %d not found" when RowsAffected() is 0, or nil
ByCommentIDReturn(S, commentID, dbUp, failure) ==
    IF ~dbUp THEN failure
    ELSE IF \E r \in S : r.comment_id = Some(commentID) THEN "nil"
    ELSE "comment not found"

\* DELETE FROM events WHERE comment_id = $1
DeleteByCommentIDRows(S, commentID) == { r \in S : r.comment_id # Some(commentID) }

\* DELETE FROM events WHERE type = ANY($1)
DeleteByTypesRows(S, types) == { r \in S : r.type \notin types }

(***************************************************************************)
(* Ingester.parseGitHubEvent for PullRequestEvent and IssueCommentEvent.   *)
(* A raw event is the decoded RawGitHubEvent; its Payload is the decoded   *)
(* JSON object, which the row keeps as it came.                            *)
(***************************************************************************)
PRID(number) == 1000 + number

RawPullRequestEvent(action, number, merged) ==
    [ Type |-> "PullRequestEvent", Actor |-> [ Login |-> "alice", ID |-> UserID("alice") ],
      CreatedAt |-> 1,
      Payload |-> [ action |-> action, number |-> number,
                    pull_request |-> [ id |-> PRID(number), merged |-> merged ] ] ]

RawIssueCommentEvent(action, commentID, body, from, createdAt) ==
    [ Type |-> "IssueCommentEvent", Actor |-> [ Login |-> "alice", ID |-> UserID("alice") ],
      CreatedAt |-> createdAt,
      Payload |-> [ action |-> action,
                    issue |-> [ number |-> 1, pull_request |-> TRUE ],
                    comment |-> [ id |-> commentID, body |-> body, created_at |-> 1,
                                  user |-> [ login |-> "alice", id |-> UserID("alice") ] ],
                    changes |-> [ body |-> [ from |-> from ] ] ] ]

\* what parseGitHubEvent hands back and what it has done on the way: the feed
\* events to insert, the error, the table and openPRs after it, and the store
\* call it made itself, if any
Parsed(feedEvents, S, open, call) ==
    [ events |-> feedEvents, err |-> "nil", rows |-> S, openPRs |-> open, call |-> call ]

\* (mutant) the switch without its default branch: any other action is
\* taken for an edit
PullRequestEventType_NoDefault(action, merged) ==
    CASE action = "opened" -> "pr_opened"
      [] action = "closed" -> IF merged THEN "pr_merged" ELSE "pr_closed"
      [] action = "reopened" -> "pr_reopened"
      [] action = "synchronize" -> "pr_synchronized"
      [] OTHER -> "pr_edited"

\* the switch on payload.Action; "" stands for the default branch (skip)
PullRequestEventType(action, merged) ==
    CASE action = "opened" -> "pr_opened"
      [] action = "closed" -> IF merged THEN "pr_merged" ELSE "pr_closed"
      [] action = "reopened" -> "pr_reopened"
      [] action = "edited" -> "pr_edited"
      [] action = "synchronize" -> "pr_synchronized"
      [] OTHER -> ""

parsePullRequestEvent(S, open, raw) ==
    LET payload == raw.Payload
        eventType == PullRequestEventType(payload.action, payload.pull_request.merged)
        tracked == IF payload.action \in {"opened", "reopened"} THEN open \cup {payload.number}
                   ELSE IF payload.action = "closed" THEN open \ {payload.number}
                   ELSE open
    IN IF eventType = "" THEN Parsed(<<>>, S, open, NoCall)
       ELSE Parsed(<< Event(eventType, raw.Actor.Login, raw.Actor.ID, Some(payload.number),
                            Null, Null, Null, Null, Null, Some(payload.pull_request.id),
                            payload, raw.CreatedAt) >>,
                   S, tracked, NoCall)

parseIssueCommentEvent(S, open, raw, dbUp) ==
    LET payload == raw.Payload
        commentID == payload.comment.id
        from == payload.changes.body.from
    IN CASE payload.action = "deleted" ->
              Parsed(<<>>, IF dbUp THEN DeleteByCommentIDRows(S, commentID) ELSE S, open,
                     Called("DeleteByCommentID", commentID, dbUp,
                            ByCommentIDReturn(S, commentID, dbUp, "failed to delete comment"),
                            dbUp /\ DeleteByCommentIDRows(S, commentID) # S))
         [] payload.action = "edited" ->
              IF from # ""
              THEN Parsed(<<>>,
                          IF dbUp THEN UpdateCommentEditRows(S, commentID, payload, from, raw.CreatedAt)
                                  ELSE S,
                          open,
                          Called("UpdateCommentEdit", commentID, dbUp,
                                 ByCommentIDReturn(S, commentID, dbUp, "failed to update comment edit"),
                                 dbUp /\ UpdateCommentEditRows(S, commentID, payload, from, raw.CreatedAt) # S))
              ELSE Parsed(<<>>, S, open, NoCall)
         [] payload.action = "created" ->
              Parsed(<< Event("issue_comment", payload.comment.user.login, payload.comment.user.id,
                              IF payload.issue.pull_request THEN Some(payload.issue.number) ELSE Null,
                              IF payload.issue.pull_request THEN Null ELSE Some(payload.issue.number),
                              Null, Some(commentID), Null, Null, Some(commentID),
                              payload, payload.comment.created_at) >>,
                     S, open, NoCall)
         [] OTHER -> Parsed(<<>>, S, open, NoCall)

\* a PullRequestReviewCommentEvent and a CommitCommentEvent as GitHub sends
\* them; ID is the feed's own id of the raw event
RawReviewCommentEvent(action, commentID, body, from, createdAt) ==
    [ Type |-> "PullRequestReviewCommentEvent",
      Actor |-> [ Login |-> "alice", ID |-> UserID("alice") ],
      CreatedAt |-> createdAt,
      Payload |-> [ action |-> action,
                    pull_request |-> [ number |-> 1 ],
                    comment |-> [ id |-> commentID, body |-> body, created_at |-> 1,
                                  user |-> [ login |-> "alice", id |-> UserID("alice") ] ],
                    changes |-> [ body |-> [ from |-> from ] ] ] ]

RawCommitCommentEvent(action, commentID, body, from, createdAt) ==
    [ Type |-> "CommitCommentEvent",
      Actor |-> [ Login |-> "alice", ID |-> UserID("alice") ],
      CreatedAt |-> createdAt,
      Payload |-> [ action |-> action,
                    comment |-> [ id |-> commentID, body |-> body, created_at |-> 1,
                                  user |-> [ login |-> "alice", id |-> UserID("alice") ] ],
                    changes |-> [ body |-> [ from |-> from ] ] ] ]

\* a raw event of a type the switch has no case for, and one whose payload
\* json.Unmarshal turns down
RawUnknownEvent ==
    [ Type |-> "SponsorshipEvent", Actor |-> [ Login |-> "alice", ID |-> UserID("alice") ],
      CreatedAt |-> 1, Payload |-> [ action |-> "created" ] ]

RawMalformedEvent(type) ==
    [ Type |-> type, Actor |-> [ Login |-> "alice", ID |-> UserID("alice") ],
      CreatedAt |-> 1, Payload |-> [ malformed |-> TRUE ] ]

Malformed(payload) == "malformed" \in DOMAIN payload

\* return nil, fmt.Errorf("failed to parse ...")
ParseFailed(S, open) ==
    [ events |-> <<>>, err |-> "failed to parse", rows |-> S, openPRs |-> open,
      call |-> NoCall ]

\* case "PullRequestReviewCommentEvent"
parseReviewCommentEvent(S, open, raw, dbUp) ==
    LET payload == raw.Payload
        commentID == payload.comment.id
        from == payload.changes.body.from
    IN CASE payload.action = "deleted" ->
              Parsed(<<>>, IF dbUp THEN DeleteByCommentIDRows(S, commentID) ELSE S, open,
                     Called("DeleteByCommentID", commentID, dbUp,
                            ByCommentIDReturn(S, commentID, dbUp, "failed to delete comment"),
                            dbUp /\ DeleteByCommentIDRows(S, commentID) # S))
         [] payload.action = "edited" ->
              IF from # ""
              THEN Parsed(<<>>,
                          IF dbUp THEN UpdateCommentEditRows(S, commentID, payload, from, raw.CreatedAt)
                                  ELSE S,
                          open,
                          Called("UpdateCommentEdit", commentID, dbUp,
                                 ByCommentIDReturn(S, commentID, dbUp, "failed to update comment edit"),
                                 dbUp /\ UpdateCommentEditRows(S, commentID, payload, from, raw.CreatedAt) # S))
              ELSE Parsed(<<>>, S, open, NoCall)
         [] payload.action = "created" ->
              Parsed(<< Event("review_comment", payload.comment.user.login, payload.comment.user.id,
                              Some(payload.pull_request.number), Null, Null, Some(commentID),
                              Null, Null, Some(commentID), payload,
                              payload.comment.created_at) >>,
                     S, open, NoCall)
         [] OTHER -> Parsed(<<>>, S, open, NoCall)

\* case "CommitCommentEvent": the payload's action is not looked at
parseCommitCommentEvent(S, open, raw) ==
    LET payload == raw.Payload
    IN Parsed(<< Event("commit_comment", payload.comment.user.login, payload.comment.user.id,
                       Null, Null, Null, Some(payload.comment.id), Null, Null,
                       Some(payload.comment.id), payload, payload.comment.created_at) >>,
              S, open, NoCall)

\* an IssuesEvent of the feed; the issue's id is the same in all its events
RawIssuesEvent(action, number) ==
    [ Type |-> "IssuesEvent", Actor |-> [ Login |-> "alice", ID |-> UserID("alice") ],
      CreatedAt |-> 1,
      Payload |-> [ action |-> action, issue |-> [ id |-> 2000 + number, number |-> number ] ] ]

\* case "IssuesEvent"
parseIssuesEvent(S, open, raw) ==
    LET payload == raw.Payload
        eventType == CASE payload.action = "opened" -> "issue_opened"
                       [] payload.action = "closed" -> "issue_closed"
                       [] payload.action = "reopened" -> "issue_reopened"
                       [] payload.action = "edited" -> "issue_edited"
                       [] OTHER -> ""
    IN IF eventType = "" THEN Parsed(<<>>, S, open, NoCall)
       ELSE Parsed(<< Event(eventType, raw.Actor.Login, raw.Actor.ID, Null,
                            Some(payload.issue.number), Null, Null, Null, Null,
                            Some(payload.issue.id), payload, raw.CreatedAt) >>,
                   S, open, NoCall)

\* the types whose case begins with json.Unmarshal of the payload
UnmarshalledTypes ==
    {"PullRequestEvent", "IssueCommentEvent", "PullRequestReviewCommentEvent",
     "CommitCommentEvent", "IssuesEvent"}

parseGitHubEvent(S, open, raw, dbUp) ==
    CASE raw.Type \in UnmarshalledTypes /\ Malformed(raw.Payload) -> ParseFailed(S, open)
      [] raw.Type = "PullRequestEvent" /\ ~Malformed(raw.Payload) ->
           parsePullRequestEvent(S, open, raw)
      [] raw.Type = "IssueCommentEvent" /\ ~Malformed(raw.Payload) ->
           parseIssueCommentEvent(S, open, raw, dbUp)
      [] raw.Type = "PullRequestReviewCommentEvent" /\ ~Malformed(raw.Payload) ->
           parseReviewCommentEvent(S, open, raw, dbUp)
      [] raw.Type = "CommitCommentEvent" /\ ~Malformed(raw.Payload) ->
           parseCommitCommentEvent(S, open, raw)
      [] raw.Type = "IssuesEvent" /\ ~Malformed(raw.Payload) -> parseIssuesEvent(S, open, raw)
      [] OTHER -> Parsed(<<>>, S, open, NoCall)

(***************************************************************************)
(* The events poller: pollEvents runs fetchAndProcessEvents at startup and *)
(* on every tick of its ticker.  Time is counted in minutes and kept as    *)
(* the time left until the reset a low-quota response announced            *)
(* (poll.quiet); poll.early is that time left at the moment the most       *)
(* recent request went out, 0 when nothing was owed.  The processedCount   *)
(* of the loop only feeds the log and is left out.                         *)
(***************************************************************************)
MaxBatch == 3
MaxReset == 16
LowWater == 10
MaxSleep == 15
EventsInterval == 1

Max(a, b) == IF a < b THEN b ELSE a

\* what GetRepoEvents meets: a request error, a 304, or n events on so many
\* pages, with the quota headers of the first page (reset as minutes from now)
Response(err, notModified, n, pages, remaining, resetIn) ==
    [ err |-> err, notModified |-> notModified, n |-> n, pages |-> pages,
      remaining |-> remaining, resetIn |-> resetIn ]

\* rateLimit.Remaining < 10 && !Reset.IsZero(); sleepDur > 0 && < 15 minutes:
\* the minutes fetchAndProcessEvents sleeps
BackoffSleep(remaining, resetIn) ==
    IF remaining < LowWater /\ resetIn > 0 /\ resetIn < MaxSleep THEN resetIn ELSE 0

\* fetchAndProcessEvents up to its loop: status, GetRepoEvents, backoff
FetchEvents(resp) ==
    /\ poll.pc = "idle" /\ poll.due
    /\ LET announced == IF ~resp.err /\ resp.remaining < LowWater /\ resp.resetIn > 0
                        THEN resp.resetIn ELSE 0
           owed == Max(poll.quiet, announced)
           slept == IF resp.err THEN 0 ELSE BackoffSleep(resp.remaining, resp.resetIn)
       IN poll' = [ pc |-> IF resp.err \/ resp.notModified THEN "idle" ELSE "processing",
                    eventsStatus |-> IF resp.err THEN "error" ELSE "running",
                    due |-> slept >= EventsInterval,
                    left |-> IF resp.err \/ resp.notModified THEN 0 ELSE resp.n,
                    dbErrors |-> 0,
                    quiet |-> Max(owed - slept, 0),
                    early |-> IF ~resp.err /\ ~resp.notModified /\ resp.pages > 1
                              THEN owed ELSE poll.quiet ]
    /\ UNCHANGED <<events, last, openPRs, backfill, concVars, pageVars, ghVars, lifeVars, loopVars, exportVars, obsVars, intakeVars,
                   svcVars>>

\* for _, feedEvent := range feedEvents { store.Insert ... }: the table, the
\* breaker count and the last Insert's outcome after the inner loop
RECURSIVE InsertAll(_, _, _, _, _)
InsertAll(S, feedEvents, dbErrors, call, dbUp) ==
    IF feedEvents = <<>> THEN [ rows |-> S, dbErrors |-> dbErrors, call |-> call ]
    ELSE LET n == feedEvents[1]
             id == NewID(S)
             ret == InsertReturn(S, n, id, dbUp)
             rows == IF dbUp THEN InsertRows(S, n, id) ELSE S
         IN InsertAll(rows, Tail(feedEvents),
                      IF ret.err # "nil" THEN dbErrors + 1 ELSE 0,
                      [ op |-> "Insert", arg |-> n, dbUp |-> dbUp, err |-> ret.err,
                        ID |-> ret.ID, IngestedAt |-> ret.IngestedAt,
                        changed |-> rows # S, rep |-> 1, firstID |-> ret.ID ],
                      dbUp)

\* one pass of the loop over the batch: the breaker check, parseGitHubEvent,
\* the inserts
ProcessRawEvent(raw, dbUp) ==
    /\ poll.pc = "processing" /\ poll.left > 0 /\ poll.dbErrors < 3
    /\ LET parsed == parseGitHubEvent(events, openPRs, raw, dbUp)
           done == InsertAll(parsed.rows, parsed.events, poll.dbErrors, parsed.call, dbUp)
       IN /\ events' = done.rows
          /\ openPRs' = parsed.openPRs
          /\ last' = done.call
          /\ poll' = [ poll EXCEPT !.left = @ - 1, !.dbErrors = done.dbErrors ]
    /\ UNCHANGED <<backfill, concVars, pageVars, lifeVars, loopVars, exportVars, obsVars, intakeVars,
                   svcVars>>

\* the pass for a raw event that is not of a comment GitHub is followed on
ProcessEvent(raw, dbUp) ==
    /\ ProcessRawEvent(raw, dbUp)
    /\ UNCHANGED ghVars

\* the loop is over: the batch is used up or the breaker has tripped
EndCycle ==
    /\ poll.pc = "processing" /\ (poll.left = 0 \/ poll.dbErrors >= 3)
    /\ poll' = [ poll EXCEPT !.pc = "idle", !.left = 0 ]
    /\ UNCHANGED <<events, last, openPRs, backfill, concVars, pageVars, ghVars, lifeVars, loopVars, exportVars, obsVars, intakeVars,
                   svcVars>>

\* a minute passes and the ticker fires
Tick ==
    /\ poll' = [ poll EXCEPT !.due = TRUE, !.quiet = Max(@ - EventsInterval, 0) ]
    /\ UNCHANGED <<events, last, openPRs, backfill, concVars, pageVars, ghVars, lifeVars, loopVars, exportVars, obsVars, intakeVars,
                   svcVars>>

(***************************************************************************)
(* The backfill job, step 1: pull requests.                                *)
(***************************************************************************)
\* the pull requests of the repository
PRNumbers == {1, 2}

\* a pull request as GetAllPRs decodes it
GitHubPR(number, state, merged) ==
    [ id |-> PRID(number), number |-> number, state |-> state, merged |-> merged,
      user |-> [ login |-> "alice", id |-> UserID("alice") ], created_at |-> 1 ]

\* (mutant) the step typing every closed pull request pr_closed
BackfillPRType_NoMerge(state, merged) ==
    IF state = "closed" THEN "pr_closed" ELSE "pr_opened"

\* the step's own copy of the rule: closed and merged is pr_merged, closed is
\* pr_closed, anything else pr_opened
BackfillPRType(state, merged) ==
    IF state = "closed"
    THEN IF merged THEN "pr_merged" ELSE "pr_closed"
    ELSE "pr_opened"

\* the event the step builds for a pull request
BackfillPREvent(pr) ==
    LET action == IF pr.state = "closed" THEN "closed" ELSE "opened"
        eventType == BackfillPRType(pr.state, pr.merged)
    IN Event(eventType, pr.user.login, pr.user.id, Some(pr.number), Null, Null, Null,
             Null, Null, Some(pr.id),
             [ action |-> action, number |-> pr.number, pull_request |-> pr ],
             pr.created_at)

\* the state and merged flag a listed pull request can carry
PRStates == { <<"open", FALSE>>, <<"closed", FALSE>>, <<"closed", TRUE>> }

\* GetAllPRs hands back k pull requests, numbered 1..k here, then DeleteByTypes
\* removes the four lifecycle types
BackfillDeletePRs(k) ==
    /\ backfill.pc = "idle"
    /\ events' = DeleteByTypesRows(events, {"pr_opened", "pr_closed", "pr_merged", "pr_reopened"})
    /\ backfill' = [ pc |-> "prs", left |-> k ]
    /\ last' = Called("DeleteByTypes", Null, TRUE, "nil", events' # events)
    /\ UNCHANGED <<openPRs, poll, concVars, pageVars, ghVars, lifeVars, loopVars, exportVars, obsVars, intakeVars,
                   svcVars>>

\* one pass of the loop over the pull requests: build the event of the next
\* pull request of the list, whose state is looked at only now, and Insert it
BackfillPR(st) ==
    /\ backfill.pc = "prs" /\ backfill.left > 0
    /\ LET pr == GitHubPR(backfill.left, st[1], st[2])
           done == InsertAll(events, << BackfillPREvent(pr) >>, 0, NoCall, TRUE)
       IN /\ events' = done.rows
          /\ last' = done.call
    /\ backfill' = [ backfill EXCEPT !.left = @ - 1 ]
    /\ UNCHANGED <<openPRs, poll, concVars, pageVars, ghVars, lifeVars, loopVars, exportVars, obsVars, intakeVars,
                   svcVars>>

\* the step is over
BackfillPRsDone ==
    /\ backfill.pc = "prs" /\ backfill.left = 0
    /\ backfill' = [ pc |-> "done", left |-> 0 ]
    /\ UNCHANGED <<events, last, openPRs, poll, concVars, pageVars, ghVars, lifeVars, loopVars, exportVars, obsVars, intakeVars,
                   svcVars>>

\* the pull-request events the feed delivers: known actions, an action the
\* normalizer does not know, merged only on closed
PRRawEvents ==
    { RawPullRequestEvent(a, n, m) :
        a \in {"opened", "closed", "reopened", "labeled"}, n \in PRNumbers, m \in BOOLEAN }
    \ { RawPullRequestEvent(a, n, TRUE) : a \in {"opened", "reopened", "labeled"}, n \in PRNumbers }

\* responses with quota to spare: a request error, a 304, a batch
FeedResponses ==
    { Response(TRUE, FALSE, 0, 1, 5000, 0), Response(FALSE, TRUE, 0, 1, 5000, 0) }
    \cup { Response(FALSE, FALSE, n, 1, 5000, 0) : n \in 1 .. MaxBatch }

NextPR ==
    \/ \E resp \in FeedResponses : FetchEvents(resp)
    \/ \E raw \in PRRawEvents : ProcessEvent(raw, TRUE)
    \/ EndCycle
    \/ Tick
    \/ \E k \in PRNumbers : BackfillDeletePRs(k)
    \/ \E st \in PRStates : BackfillPR(st)
    \/ BackfillPRsDone

SpecPR == Init /\ [][NextPR]_vars

(***************************************************************************)
(* Comments written and edited on GitHub, their events delivered to the    *)
(* poller once each and in the order they happened.  thread[c] is what     *)
(* GitHub holds of comment c: its bodies, oldest first, each with the time *)
(* it was written.                                                         *)
(***************************************************************************)
Bodies == {"hello", "hello world", "bye"}

Version(body, at) == [ body |-> body, at |-> at ]

\* a comment is written on GitHub; the poller's pass over its created event
CommentCreated(c, body) ==
    /\ thread[c] = <<>>
    /\ thread' = [ thread EXCEPT ![c] = << Version(body, 1) >> ]
    /\ ProcessRawEvent(RawIssueCommentEvent("created", c, body, "", 1), TRUE)

\* the comment's body is changed on GitHub; the poller's pass over the edited
\* event, which carries the new body and, in changes.body.from, the old one
CommentEdited(c, body) ==
    /\ thread[c] # <<>> /\ Len(thread[c]) <= MaxEdits
    /\ LET k == Len(thread[c]) IN
        /\ body # thread[c][k].body
        /\ thread' = [ thread EXCEPT ![c] = Append(@, Version(body, k + 1)) ]
        /\ ProcessRawEvent(RawIssueCommentEvent("edited", c, body, thread[c][k].body, k + 1), TRUE)

NextEdit ==
    \/ \E resp \in FeedResponses : FetchEvents(resp)
    \/ \E c \in CommentIDs, body \in Bodies : CommentCreated(c, body)
    \/ \E c \in CommentIDs, body \in Bodies : CommentEdited(c, body)
    \/ EndCycle
    \/ Tick

SpecEdit == Init /\ [][NextEdit]_vars

(***************************************************************************)
(* The vote aggregates of the store, over the reaction rows the producers  *)
(* write: reactions on a pull request (poller, backfill) and reactions on  *)
(* a comment (backfill, step 6).                                           *)
(***************************************************************************)
Contents == {"+1", "-1", "heart"}

\* the reaction's id on GitHub, one per user, target and content
ReactionID(u, onComment, content) ==
    UserID(u) * 100 + (IF onComment THEN 10 ELSE 0) +
    (CASE content = "+1" -> 1 [] content = "-1" -> 2 [] OTHER -> 3)

\* (mutant) every content but "-1" counted as a vote in favour
Choice_AllButDownIsUp(content) ==
    CASE content = "-1" -> Some(-1) [] OTHER -> Some(1)

\* choice: +1 and -1 are votes, anything else has none
Choice(content) ==
    CASE content = "+1" -> Some(1) [] content = "-1" -> Some(-1) [] OTHER -> Null

\* fetchAndProcessReactions / backfill step 3: a reaction on pull request prNum
PRReactionEvent(u, prNum, content, createdAt) ==
    Event("reaction", u, UserID(u), Some(prNum), Null, Null, Null, Choice(content),
          Some(content), Some(ReactionID(u, FALSE, content)),
          [ id |-> ReactionID(u, FALSE, content), content |-> content, user |-> u,
            created_at |-> createdAt, pr_number |-> prNum ],
          createdAt)

\* backfill step 6: a reaction on comment commentID
CommentReactionEvent(u, commentID, content, createdAt) ==
    Event("reaction", u, UserID(u), Null, Null, Null, Some(commentID), Choice(content),
          Some(content), Some(ReactionID(u, TRUE, content)),
          [ id |-> ReactionID(u, TRUE, content), content |-> content, user |-> u,
            created_at |-> createdAt, comment_id |-> commentID ],
          createdAt)

ReactionInputs ==
    { PRReactionEvent(u, 1, c, 1) : u \in Users, c \in Contents }
    \cup { CommentReactionEvent(u, 1, c, 2) : u \in Users, c \in Contents }

\* (mutant) the WHERE clause without comment_id IS NULL
IsVote_AnyParent(e) == e.type = "reaction" /\ e.choice # Null

\* WHERE type = 'reaction' AND choice IS NOT NULL AND comment_id IS NULL
IsVote(e) == e.type = "reaction" /\ e.choice # Null /\ e.comment_id = Null

Least(T) == CHOOSE t \in T : \A o \in T : t <= o

Greatest(T) == CHOOSE t \in T : \A o \in T : o <= t

\* one row of GROUP BY github_user, github_user_id over the rows V
VoterSummary(V) ==
    LET any == CHOOSE e \in V : TRUE
        prs == { e.pr_number[1] : e \in { v \in V : v.pr_number # Null } }
    IN [ GitHubUser |-> any.github_user, GitHubUserID |-> any.github_user_id,
         TotalVotes |-> Cardinality(V),
         Upvotes |-> Cardinality({ e \in V : e.choice = Some(1) }),
         Downvotes |-> Cardinality({ e \in V : e.choice = Some(-1) }),
         FirstVote |-> Least({ e.occurred_at : e \in V }),
         LastVote |-> Greatest({ e.occurred_at : e \in V }),
         PRsVotedOn |-> prs, UniquePRs |-> Cardinality(prs) ]

\* GetVoters: the summaries; their order (total_votes DESC, ties as the
\* database has them) is left out
GetVoters(S) ==
    LET votes == { e \in S : IsVote(e) } IN
    { VoterSummary({ v \in votes : /\ v.github_user = e.github_user
                                   /\ v.github_user_id = e.github_user_id }) : e \in votes }

\* GetVoter: the summaries the query yields for the handle; QueryRow scans the
\* first, and none is "voter not found"
GetVoter(S, githubUser) ==
    LET votes == { e \in S : IsVote(e) /\ e.github_user = githubUser } IN
    { VoterSummary({ v \in votes : v.github_user_id = e.github_user_id }) : e \in votes }

GetPRVotes(S, prNumber) ==
    LET votes == { e \in S : IsVote(e) /\ e.pr_number = Some(prNumber) } IN
    [ upvotes |-> Cardinality({ e \in votes : e.choice = Some(1) }),
      downvotes |-> Cardinality({ e \in votes : e.choice = Some(-1) }) ]

\* GetPRVoteDetails: one detail per vote row (kept apart by the row they come
\* from); their order by occurred_at is left out
GetPRVoteDetails(S, prNumber) ==
    { [ row |-> e.id, GitHubUser |-> e.github_user, GitHubUserID |-> e.github_user_id,
        Choice |-> e.choice[1], OccurredAt |-> e.occurred_at ] :
      e \in { v \in S : IsVote(v) /\ v.pr_number = Some(prNumber) } }

\* GetStats, without the counts that depend on the time of the call
GetStats(S) ==
    [ TotalEvents |-> Cardinality(S),
      TotalVotes |-> Cardinality({ e \in S : IsVote(e) }),
      TotalVoters |-> Cardinality({ e.github_user : e \in { v \in S : IsVote(v) } }),
      EventsByType |-> [ t \in { e.type : e \in S } |-> Cardinality({ e \in S : e.type = t }) ] ]

\* everything the vote endpoints hand out for the table S
VoteViews(S) ==
    [ voters |-> GetVoters(S),
      voter |-> [ u \in Users |-> GetVoter(S, u) ],
      prVotes |-> [ n \in PRNumbers |-> GetPRVotes(S, n) ],
      prVoteDetails |-> [ n \in PRNumbers |-> GetPRVoteDetails(S, n) ],
      totalVotes |-> GetStats(S).TotalVotes,
      totalVoters |-> GetStats(S).TotalVoters ]

\* the vote endpoints are read
ReadVotes ==
    /\ last' = [ Called("ReadVotes", Null, TRUE, "nil", FALSE) EXCEPT
                   !.arg = [ views |-> VoteViews(events), totalEvents |-> GetStats(events).TotalEvents ] ]
    /\ UNCHANGED <<events, concVars, pageVars, feedVars, ghVars, lifeVars, loopVars, exportVars, obsVars, intakeVars,
                   svcVars>>

NextVotes ==
    \/ \E n \in ReactionInputs : Insert(n)
    \/ ReadVotes

SpecVotes == Init /\ [][NextVotes]_vars

(***************************************************************************)
(* The events poller over the comment events of a feed that can deliver    *)
(* them in any order and more than once, with a database that can fail.    *)
(***************************************************************************)
CommentRawEvents ==
    { RawIssueCommentEvent("created", 1, "hello", "", 1) }
    \cup { RawIssueCommentEvent("edited", c, "hello world", from, 2) :
             c \in CommentIDs, from \in {"hello", "bye", ""} }
    \cup { RawIssueCommentEvent("deleted", c, "hello world", "", 3) : c \in CommentIDs }
    \cup { RawIssueCommentEvent("labeled", 1, "hello", "", 1) }

\* the edit histories stay within MaxEdits entries
EditsBounded(raw) ==
    raw.Payload.action = "edited" =>
        \A r \in events : r.comment_id = Some(raw.Payload.comment.id) => Len(r.edit_history) < MaxEdits

\* the pass of the loop over a comment event
ProcessCommentEvent(raw, dbUp) ==
    /\ EditsBounded(raw)
    /\ ProcessEvent(raw, dbUp)

NextFeed ==
    \/ \E resp \in FeedResponses : FetchEvents(resp)
    \/ \E raw \in CommentRawEvents, dbUp \in BOOLEAN : ProcessCommentEvent(raw, dbUp)
    \/ EndCycle
    \/ Tick

SpecFeed == Init /\ [][NextFeed]_vars

(***************************************************************************)
(* The events poller against a quota: responses that report few or many    *)
(* requests remaining and a reset some minutes ahead, on one page or two.  *)
(***************************************************************************)
RateResponses ==
    { Response(TRUE, FALSE, 0, 1, 0, 0) }
    \cup { Response(FALSE, TRUE, 0, 1, remaining, resetIn) :
             remaining \in {5, 5000}, resetIn \in 0 .. MaxReset }
    \cup { Response(FALSE, FALSE, 0, pages, remaining, resetIn) :
             pages \in {1, 2}, remaining \in {5, 5000}, resetIn \in 0 .. MaxReset }

NextRate ==
    \/ \E resp \in RateResponses : FetchEvents(resp)
    \/ EndCycle
    \/ Tick

SpecRate == Init /\ [][NextRate]_vars

(***************************************************************************)
(* The goroutine lifecycle (ingester.go Run, Stop, pollEvents,             *)
(* pollReactions, pollDiscussions) and the server's shutdown sequence      *)
(* around it.  A loop's cycle is a bounded run of fetches and store        *)
(* writes; the events loop may sit in time.Sleep after a fetch.  A loop    *)
(* that reaches its select with several cases ready takes any of them, as  *)
(* Go's select does; a loop parked in the select is woken by whichever     *)
(* channel becomes ready first.                                            *)
(***************************************************************************)

\* the fetches and store writes of one cycle
MaxWork == 2

LoopAt(l, pc, tick, work) ==
    [ life EXCEPT !.loop[l] = [ pc |-> pc, tick |-> tick, work |-> work ] ]

Started == \A l \in Loops : life.loop[l].pc # "none"

lifeFrame ==
    UNCHANGED <<events, last, concVars, pageVars, feedVars, ghVars, loopVars, exportVars, obsVars, intakeVars,
                   svcVars>>

\* Ingester.Run(ctx): wg.Add(1) and a goroutine per loop; each goroutine
\* creates its ticker and polls at once
Run ==
    /\ \A l \in Loops : life.loop[l].pc = "none"
    /\ life' = [ life EXCEPT
                   !.wg = Cardinality(Loops),
                   !.loop = [ l \in Loops |->
                                [ pc |-> "cycle", tick |-> FALSE, work |-> 0 ] ] ]
    /\ lifeFrame

\* a request of the cycle goes out: the client's http call, bound to ctx only
LoopFetchBegin(l) ==
    /\ life.loop[l].pc = "cycle"
    /\ life.loop[l].work < MaxWork
    /\ life' = LoopAt(l, "fetching", life.loop[l].tick, life.loop[l].work + 1)
    /\ lifeFrame

\* where a loop stands after a response: the cycle goes on, the fetch function
\* returns on the error, or the events loop enters its backoff time.Sleep
AfterFetch(l) ==
    {"cycle", "select"} \cup (IF l = "events" THEN {"sleeping"} ELSE {})

\* the response, or the error, comes back
LoopFetchEnd(l, pc) ==
    /\ life.loop[l].pc = "fetching"
    /\ pc \in AfterFetch(l)
    /\ life.ctx = "cancelled" => pc = "select"
    /\ life' = LoopAt(l, pc, life.loop[l].tick, life.loop[l].work)
    /\ lifeFrame

\* time.Sleep(sleepDur) returns when the duration has elapsed
LoopSleepEnd(l) ==
    /\ life.loop[l].pc = "sleeping"
    /\ life' = LoopAt(l, "cycle", life.loop[l].tick, life.loop[l].work)
    /\ lifeFrame

\* ing.store.Insert inside the cycle
LoopWrite(l) ==
    /\ life.loop[l].pc = "cycle"
    /\ life.loop[l].work < MaxWork
    /\ life' = LoopAt(l, "cycle", life.loop[l].tick, life.loop[l].work + 1)
    /\ lifeFrame

\* the fetch function returns; the loop is at its select
LoopCycleEnd(l) ==
    /\ life.loop[l].pc = "cycle"
    /\ life' = LoopAt(l, "select", life.loop[l].tick, life.loop[l].work)
    /\ lifeFrame

ShutdownReady == life.stopCh = "closed" \/ life.ctx = "cancelled"

\* the ticker's period elapses: the tick wakes a loop parked in the select, or
\* waits in the channel's one-slot buffer, or is dropped when the slot is taken
TickerFires(l) ==
    /\ life.loop[l].pc \notin {"none", "exited"}
    /\ IF life.loop[l].pc = "parked" /\ ~ShutdownReady
         THEN life' = LoopAt(l, "cycle", FALSE, 0)
         ELSE /\ ~life.loop[l].tick
              /\ life' = LoopAt(l, life.loop[l].pc, TRUE, life.loop[l].work)
    /\ lifeFrame

\* select, case <-ticker.C: a buffered tick starts the next cycle
LoopTick(l) ==
    /\ life.loop[l].pc = "select"
    /\ life.loop[l].tick
    /\ life' = LoopAt(l, "cycle", FALSE, 0)
    /\ lifeFrame

\* select with no case ready: the goroutine parks
LoopPark(l) ==
    /\ life.loop[l].pc = "select"
    /\ ~life.loop[l].tick
    /\ ~ShutdownReady
    /\ life' = LoopAt(l, "parked", FALSE, life.loop[l].work)
    /\ lifeFrame

\* select, case <-ing.stopCh or <-ctx.Done(): return, and the deferred
\* ticker.Stop() and wg.Done() run
LoopReturn(l) ==
    /\ life.loop[l].pc \in {"select", "parked"}
    /\ ShutdownReady
    /\ life' = [ LoopAt(l, "exited", FALSE, life.loop[l].work) EXCEPT !.wg = life.wg - 1 ]
    /\ lifeFrame

\* ing.wg.Wait() is over
WaitGroupWait_NoWait(wg) == TRUE

WaitGroupWait(wg) == wg = 0

\* a goroutine calls Stop: stopOnce.Do runs the function in the first caller,
\* holds every caller arriving while it runs, and returns at once afterwards
StopCall(c) ==
    /\ Started
    /\ life.stop[c] = "idle" \/ (c # "server" /\ life.stop[c] = "returned")
    /\ life' = CASE life.stopOnce = "unused" ->
                      [ life EXCEPT !.stopOnce = "running", !.stop[c] = "closing" ]
                 [] life.stopOnce = "running" ->
                      [ life EXCEPT !.stop[c] = "held" ]
                 [] life.stopOnce = "done" ->
                      [ life EXCEPT !.stop[c] = "returned", !.returned = TRUE ]
    /\ lifeFrame

\* close(ing.stopCh)
StopClose(c) ==
    /\ life.stop[c] = "closing"
    /\ life' = [ life EXCEPT !.stopCh = "closed", !.stop[c] = "waiting" ]
    /\ lifeFrame

\* ing.wg.Wait() returns, the function ends, Do marks the Once done and returns
StopWait(c) ==
    /\ life.stop[c] = "waiting"
    /\ WaitGroupWait(life.wg)
    /\ life' = [ life EXCEPT !.stopOnce = "done", !.stop[c] = "returned",
                              !.returned = TRUE ]
    /\ lifeFrame

\* a caller held by the Once returns when the Once is done
StopRelease(c) ==
    /\ life.stop[c] = "held"
    /\ life.stopOnce = "done"
    /\ life' = [ life EXCEPT !.stop[c] = "returned", !.returned = TRUE ]
    /\ lifeFrame

\* the server's shutdown after ingester.Stop() has returned: cancel()
ServerCancel ==
    /\ life.stop["server"] = "returned"
    /\ life.ctx = "live"
    /\ life' = [ life EXCEPT !.ctx = "cancelled" ]
    /\ lifeFrame

\* ... and, last, database.Close()
ServerClose ==
    /\ life.ctx = "cancelled"
    /\ life.database = "open"
    /\ life' = [ life EXCEPT !.database = "closed" ]
    /\ lifeFrame

NextStop ==
    \/ Run
    \/ \E l \in Loops : LoopFetchBegin(l)
    \/ \E l \in Loops, pc \in {"cycle", "select", "sleeping"} : LoopFetchEnd(l, pc)
    \/ \E l \in Loops : LoopSleepEnd(l)
    \/ \E l \in Loops : LoopWrite(l)
    \/ \E l \in Loops : LoopCycleEnd(l)
    \/ \E l \in Loops : TickerFires(l)
    \/ \E l \in Loops : LoopTick(l)
    \/ \E l \in Loops : LoopPark(l)
    \/ \E l \in Loops : LoopReturn(l)
    \/ \E c \in Callers : StopCall(c)
    \/ \E c \in Callers : StopClose(c)
    \/ \E c \in Callers : StopWait(c)
    \/ \E c \in Callers : StopRelease(c)
    \/ ServerCancel
    \/ ServerClose

SpecStop == Init /\ [][NextStop]_vars

(***************************************************************************)
(* The reactions poller (ingester.go fetchAndProcessReactions) and the     *)
(* client calls it makes (GetAllPRs, GetOpenPRs with its PRCache update,   *)
(* GetIssueReactions).  Every response carries the quota headers; the      *)
(* poller does not read them.                                              *)
(***************************************************************************)

\* the cycles of one run of the reactions loop
MaxCycle == 11

\* the reactions GitHub returns for one pull request
MaxReactions == 4

\* every 10th cycle polls all pull requests
FullScanEvery == 10

\* the X-RateLimit-Remaining and X-RateLimit-Reset of a response, the reset in
\* minutes from now
Quota(remaining, resetIn) == [ remaining |-> remaining, resetIn |-> resetIn ]

\* the minutes until the reset a response announces with its quota below the mark
Announced(q) == IF q.remaining < LowWater /\ q.resetIn > 0 THEN q.resetIn ELSE 0

\* a request goes out and its response comes back: the reset still ahead when
\* the request went out, and the reset ahead after the response
SentEarly(early) == IF poll.quiet > 0 THEN poll.quiet ELSE early

Heard(q) == [ poll EXCEPT !.quiet = Max(@, Announced(q)) ]

\* Client.GetOpenPRs: c.cache.UpdatePR(pr) for every pull request of the answer
UpdatePRs_NoCache(prCache, open) == prCache

UpdatePRs(prCache, open) == prCache \cup open

\* (mutant) the full scan on every 20th cycle
PollAll_Every20th(cycle) == cycle % (2 * FullScanEvery) = 0

\* pollAll := cycle%10 == 0
PollAll(cycle) == cycle % FullScanEvery = 0

\* fetchAndProcessReactions up to its loop: status, the cycle counter, the
\* list of pull requests of this cycle
FetchReactionPRs(err, open, q) ==
    /\ reactions.pc = "idle"
    /\ reactions.reactionsCycle < MaxCycle
    /\ LET cycle == reactions.reactionsCycle + 1
           pollAll == PollAll(cycle)
       IN reactions' =
            [ reactions EXCEPT
                !.pc = IF err THEN "idle" ELSE "prs",
                !.reactionsStatus = IF err THEN "error" ELSE "running",
                !.reactionsCycle = cycle,
                !.pollAll = pollAll,
                !.prNumbers = IF err THEN {} ELSE IF pollAll THEN PRNumbers ELSE open,
                !.polled = {},
                !.prNum = 0,
                !.left = 0,
                !.dbErrors = 0,
                !.prCache = IF err \/ pollAll THEN @ ELSE UpdatePRs(@, open),
                !.early = SentEarly(@),
                !.sinceFullScan = IF pollAll THEN 0 ELSE @ + 1,
                !.sinceAllListed = IF pollAll /\ ~err THEN 0 ELSE @ + 1 ]
    /\ poll' = IF err THEN poll ELSE Heard(q)
    /\ UNCHANGED <<events, last, openPRs, backfill, discussions, concVars, pageVars,
                   ghVars, lifeVars, exportVars, obsVars, intakeVars, svcVars>>

\* the breaker check at the head of the loop over the pull requests
ReactionBreakerOpen(dbErrors) == dbErrors >= 3

\* one pass of the loop over prNumbers up to its inner loop: the breaker
\* check and GetIssueReactions, which answers with n reactions
FetchIssueReactions(err, n, q) ==
    /\ reactions.pc = "prs"
    /\ reactions.prNumbers # {}
    /\ ~ReactionBreakerOpen(reactions.dbErrors)
    /\ LET prNum == Least(reactions.prNumbers)
       IN reactions' =
            [ reactions EXCEPT
                !.pc = IF err \/ n = 0 THEN "prs" ELSE "reactions",
                !.prNumbers = @ \ {prNum},
                !.polled = @ \cup {prNum},
                !.prNum = prNum,
                !.left = IF err THEN 0 ELSE n,
                !.early = SentEarly(@) ]
    /\ poll' = IF err THEN poll ELSE Heard(q)
    /\ UNCHANGED <<events, last, openPRs, backfill, discussions, concVars, pageVars,
                   ghVars, lifeVars, exportVars, obsVars, intakeVars, svcVars>>

\* one pass of the inner loop: ing.store.Insert of one reaction
InsertReaction(u, content, dbUp) ==
    /\ reactions.pc = "reactions"
    /\ LET n == PRReactionEvent(u, reactions.prNum, content, 1)
           id == NewID(events)
           ret == InsertReturn(events, n, id, dbUp)
           rows == IF dbUp THEN InsertRows(events, n, id) ELSE events
       IN /\ events' = rows
          /\ last' = [ op |-> "Insert", arg |-> n, dbUp |-> dbUp, err |-> ret.err,
                       ID |-> ret.ID, IngestedAt |-> ret.IngestedAt,
                       changed |-> rows # events, rep |-> 1, firstID |-> ret.ID ]
          /\ reactions' =
               [ reactions EXCEPT
                   !.pc = IF reactions.left = 1 THEN "prs" ELSE "reactions",
                   !.left = @ - 1,
                   !.dbErrors = IF ret.err # "nil" THEN @ + 1 ELSE 0 ]
    /\ UNCHANGED <<openPRs, poll, backfill, discussions, concVars, pageVars, ghVars,
                   lifeVars, exportVars, obsVars, intakeVars, svcVars>>

\* the loop over prNumbers is over: the list is used up or the breaker is open
EndReactionsCycle ==
    /\ reactions.pc = "prs"
    /\ reactions.prNumbers = {} \/ ReactionBreakerOpen(reactions.dbErrors)
    /\ reactions' = [ reactions EXCEPT !.pc = "idle" ]
    /\ UNCHANGED <<events, last, feedVars, discussions, concVars, pageVars, ghVars,
                   lifeVars, exportVars, obsVars, intakeVars, svcVars>>

\* PRCache: an entry older than the time-to-live is no longer listed
ExpirePR(number) ==
    /\ number \in reactions.prCache
    /\ reactions' = [ reactions EXCEPT !.prCache = @ \ {number} ]
    /\ UNCHANGED <<events, last, feedVars, discussions, concVars, pageVars, ghVars,
                   lifeVars, exportVars, obsVars, intakeVars, svcVars>>

AmpleQuota == Quota(5000, 0)

\* the cycles of the loop with the database up and at most one reaction a
\* pull request
NextReactions ==
    \/ \E err \in BOOLEAN, open \in SUBSET PRNumbers : FetchReactionPRs(err, open, AmpleQuota)
    \/ \E err \in BOOLEAN, n \in {0, 1} : FetchIssueReactions(err, n, AmpleQuota)
    \/ \E u \in Users : InsertReaction(u, "+1", TRUE)
    \/ EndReactionsCycle
    \/ \E number \in PRNumbers : ExpirePR(number)

SpecReactions == Init /\ [][NextReactions]_vars

(***************************************************************************)
(* The discussions poller (ingester.go fetchAndProcessDiscussions): one    *)
(* GraphQL fetch, then an Insert for every discussion, comment and         *)
(* reaction of the answer.                                                 *)
(***************************************************************************)

\* the discussions of the repository and their comments
DiscussionNumbers == {1, 2}

\* the rows one answer leads to
MaxDiscussionRows == 4

DiscussionCreatedEvent(u, number) ==
    Event("discussion_created", u, 0, Null, Null, Some(number), Null, Null, Null,
          Some(number), [ number |-> number, author |-> u ], 1)

DiscussionCommentEvent(u, number, comment) ==
    Event("discussion_comment", u, 0, Null, Null, Some(number), Some(comment), Null, Null,
          Some(comment), [ number |-> comment, author |-> u ], 2)

DiscussionInputs ==
    { DiscussionCreatedEvent("alice", d) : d \in DiscussionNumbers }
    \cup { DiscussionCommentEvent("bob", 1, 2) }

\* fetchAndProcessDiscussions up to its loop: status, the nil check of the
\* GraphQL client, FetchDiscussions, which answers with n rows to insert
FetchDiscussions(configured, err, n, q) ==
    /\ discussions.pc = "idle"
    /\ discussions' =
         [ pc |-> IF ~configured \/ err \/ n = 0 THEN "idle" ELSE "inserting",
           discussionsStatus |-> IF ~configured THEN "disabled"
                                 ELSE IF err THEN "error" ELSE "running",
           left |-> IF ~configured \/ err THEN 0 ELSE n,
           failed |-> 0,
           early |-> IF configured THEN SentEarly(discussions.early)
                     ELSE discussions.early,
           queue |-> <<>>, tried |-> <<>> ]
    /\ poll' = IF ~configured \/ err THEN poll ELSE Heard(q)
    /\ UNCHANGED <<events, last, openPRs, backfill, reactions, concVars, pageVars,
                   ghVars, lifeVars, exportVars, obsVars, intakeVars, svcVars>>

\* ing.store.Insert of one discussion, comment or reaction of the answer
InsertDiscussionEvent(n, dbUp) ==
    /\ discussions.pc = "inserting"
    /\ LET id == NewID(events)
           ret == InsertReturn(events, n, id, dbUp)
           rows == IF dbUp THEN InsertRows(events, n, id) ELSE events
       IN /\ events' = rows
          /\ last' = [ op |-> "Insert", arg |-> n, dbUp |-> dbUp, err |-> ret.err,
                       ID |-> ret.ID, IngestedAt |-> ret.IngestedAt,
                       changed |-> rows # events, rep |-> 1, firstID |-> ret.ID ]
          /\ discussions' =
               [ discussions EXCEPT
                   !.pc = IF discussions.left = 1 THEN "idle" ELSE "inserting",
                   !.left = @ - 1,
                   !.failed = IF ret.err # "nil" THEN @ + 1 ELSE 0 ]
    /\ UNCHANGED <<openPRs, poll, backfill, reactions, concVars, pageVars, ghVars,
                   lifeVars, exportVars, obsVars, intakeVars, svcVars>>

\* the poll on startup, with an answer from GitHub
FirstReactionsCycle(open) ==
    /\ reactions.reactionsCycle = 0
    /\ FetchReactionPRs(FALSE, open, AmpleQuota)

\* the reaction and discussion cycles with the database up or down
NextBreaker ==
    \/ \E open \in {{1}, {1, 2}} : FirstReactionsCycle(open)
    \/ \E err \in BOOLEAN, n \in {0, MaxReactions} : FetchIssueReactions(err, n, AmpleQuota)
    \/ \E dbUp \in BOOLEAN : InsertReaction("alice", "+1", dbUp)
    \/ EndReactionsCycle
    \/ \E configured, err \in BOOLEAN, n \in {0, MaxDiscussionRows} :
          FetchDiscussions(configured, err, n, AmpleQuota)
    \/ \E n \in DiscussionInputs, dbUp \in BOOLEAN : InsertDiscussionEvent(n, dbUp)

SpecBreaker == Init /\ [][NextBreaker]_vars

(***************************************************************************)
(* A whole cycle of the events loop over one answer of the feed, the       *)
(* database up: the loop of fetchAndProcessEvents as a function of the     *)
(* table and the batch.  The feed returns overlapping windows, so the      *)
(* batch of one cycle may be delivered again by the next.                  *)
(***************************************************************************)

\* for _, rawEvent := range events { parseGitHubEvent; Insert ... }
RECURSIVE ProcessBatch(_, _, _, _)
ProcessBatch(S, open, batch, call) ==
    IF batch = <<>> THEN [ rows |-> S, openPRs |-> open, call |-> call ]
    ELSE LET parsed == parseGitHubEvent(S, open, batch[1], TRUE)
             done == InsertAll(parsed.rows, parsed.events, 0, parsed.call, TRUE)
         IN ProcessBatch(done.rows, parsed.openPRs, Tail(batch), done.call)

\* the raw events of the feed about comment 1 and pull request 1
ReplayRawEvents ==
    { RawIssueCommentEvent("created", 1, "hello", "", 1),
      RawIssueCommentEvent("edited", 1, "hello world", "hello", 2),
      RawIssueCommentEvent("deleted", 1, "hello world", "", 3),
      RawPullRequestEvent("opened", 1, FALSE),
      RawPullRequestEvent("closed", 1, TRUE) }

\* the answers of the feed: one or two raw events, in any order
Batches ==
    UNION { [ 1 .. n -> ReplayRawEvents ] : n \in {1, 2} }

\* the cycles of one run of the events loop
MaxDeliveries == 3

\* the edit histories stay within MaxEdits entries
BatchEditsBounded(batch) ==
    \A r \in events : Len(r.edit_history) + Len(batch) <= MaxEdits

\* fetchAndProcessEvents with the answer batch, which is the batch of the
\* cycle before or a new one
PollCycle(batch) ==
    /\ delivery.total < MaxDeliveries
    /\ BatchEditsBounded(batch)
    /\ LET done == ProcessBatch(events, openPRs, batch, last)
       IN /\ events' = done.rows
          /\ openPRs' = done.openPRs
          /\ last' = done.call
    /\ poll' = [ poll EXCEPT !.eventsStatus = "running" ]
    /\ delivery' = [ batch |-> batch,
                     cycles |-> IF batch = delivery.batch THEN delivery.cycles + 1 ELSE 1,
                     total |-> delivery.total + 1 ]
    /\ before' = events
    /\ UNCHANGED <<backfill, concVars, pageVars, ghVars, lifeVars, loopVars, exportVars,
                   intakeVars, svcVars>>

NextReplay == \E batch \in Batches : PollCycle(batch)

SpecReplay == Init /\ [][NextReplay]_vars

(***************************************************************************)
(* The three loops against one quota: every response carries the quota     *)
(* headers, the events loop reads them, the reaction and discussion loops  *)
(* do not.                                                                 *)
(***************************************************************************)

\* the quota headers of a response: quota to spare, or below the mark with
\* the reset a minute or MaxReset minutes ahead
Quotas == { AmpleQuota, Quota(5, 1), Quota(5, MaxReset) }

\* the events poll answered 304, with quota to spare or below the mark
QuotaResponses ==
    { Response(FALSE, TRUE, 0, 1, q.remaining, q.resetIn) : q \in Quotas }

\* the first two cycles of the reaction loop
EarlyReactionsCycle(q) ==
    /\ reactions.reactionsCycle < 2
    /\ FetchReactionPRs(FALSE, {1}, q)

NextQuota ==
    \/ \E resp \in QuotaResponses : FetchEvents(resp)
    \/ Tick
    \/ \E q \in Quotas : EarlyReactionsCycle(q)
    \/ \E q \in Quotas : FetchIssueReactions(FALSE, 0, q)
    \/ EndReactionsCycle
    \/ \E q \in Quotas : FetchDiscussions(TRUE, FALSE, 0, q)

SpecQuota == Init /\ [][NextQuota]_vars

(***************************************************************************)
(* The export stream (feed_handler.go Export over store.go ExportList).    *)
(* The page size, 1000 in the source, and the cap, 100000 in the source    *)
(* and so a whole number of pages, are scaled down to 2 and 4.             *)
(***************************************************************************)

\* the rows of one ExportList page
ExportPageSize == 2

\* maxExport, the safety cap
maxExport == 4

\* the rows of the table exported
MaxExportRows == 5

\* Store.ExportList: the limit clamped to the page size, then listInternal
ExportList(S, f, sort, limit, cursor) ==
    listInternal(S, f, sort,
                 IF limit <= 0 \/ limit > ExportPageSize THEN ExportPageSize ELSE limit,
                 cursor)

\* the loop condition: for totalExported < maxExport
CapReached_Never(totalExported) == FALSE

CapReached(totalExported) == ~(totalExported < maxExport)

\* the tables exported: rows 1..n, each with an occurred_at of 1 or 2
ExportStores ==
    UNION { { { PageRow(i, a[i], IF i = 1 THEN "release" ELSE "push") : i \in 1 .. n } :
                a \in [ 1 .. n -> {1, 2} ] } :
            n \in 0 .. MaxExportRows }

InitExport ==
    /\ events \in ExportStores
    /\ last = NoCall
    /\ inflight = [ p \in Producers |-> Null ]
    /\ pager = NoPager
    /\ openPRs = {}
    /\ poll = NoPoll
    /\ backfill = NoBackfill
    /\ thread = [ c \in CommentIDs |-> <<>> ]
    /\ life = NoLife
    /\ reactions = NoReactions
    /\ discussions = NoDiscussions
    /\ export = NoExport
    /\ delivery = NoDelivery
    /\ before = events
    /\ fetch = NoFetch
    /\ intake = NoIntake
    /\ norm = NoNorm
    /\ cache = NoCache
    /\ limiter = NoLimiter
    /\ guard = NoGuard

exportFrame ==
    UNCHANGED <<events, last, concVars, pageVars, feedVars, ghVars, lifeVars, loopVars,
                obsVars, intakeVars, svcVars>>

\* Export up to its loop: the format check, the filters, the default sort,
\* the headers and WriteHeader(200), and for csv the header row, whose write
\* may fail
ExportBegin(f, sortParam, format, headerErr) ==
    /\ export.state = "idle"
    /\ export' =
         IF format \notin {"", "ndjson", "csv"}
         THEN [ export EXCEPT !.state = "rejected", !.status = 400 ]
         ELSE LET begun == [ export EXCEPT
                               !.state = "streaming",
                               !.status = 200,
                               !.filters = f,
                               !.sort = IF sortParam = "" THEN "oldest" ELSE sortParam,
                               !.format = IF format = "" THEN "ndjson" ELSE format ]
              IN IF format = "csv" /\ headerErr
                 THEN [ begun EXCEPT !.state = "done", !.end = "write" ]
                 ELSE begun
    /\ exportFrame

\* the handler returns: the loop is left for the reason given and what was
\* written goes out with the end of the response
ExportEnded(ex, reason) ==
    [ ex EXCEPT !.state = "done", !.end = reason, !.flushed = Len(ex.written) ]

\* one pass of the loop: the deadline check, ExportList, the rows written one
\* by one (the write of row failAt fails, 0 for none), the flush, the cursor,
\* the short-page check, and the loop condition for the next pass
ExportPage(deadline, queryErr, failAt) ==
    /\ export.state = "streaming"
    /\ \E page \in { ExportList(events, export.filters, export.sort, ExportPageSize,
                                 export.cursor) } :
         LET wrote == [ export EXCEPT
                          !.written = @ \o IDs(page),
                          !.flushed = Len(export.written) + Len(page),
                          !.totalExported = @ + Len(page),
                          !.cursor = Some(page[Len(page)].id) ]
         IN export' =
              IF deadline THEN ExportEnded(export, "deadline")
              ELSE IF queryErr THEN ExportEnded(export, "query")
              ELSE IF Len(page) = 0 THEN ExportEnded(export, "empty")
              ELSE IF failAt > 0 /\ failAt <= Len(page)
              THEN ExportEnded([ export EXCEPT
                                   !.written = @ \o IDs(SubSeq(page, 1, failAt - 1)),
                                   !.totalExported = @ + failAt - 1 ],
                               "write")
              ELSE IF Len(page) < ExportPageSize THEN ExportEnded(wrote, "short")
              ELSE IF CapReached(wrote.totalExported) THEN ExportEnded(wrote, "cap")
              ELSE wrote
    /\ exportFrame

NextExport ==
    \/ \E f \in TraversalFilters, sortParam \in SortParams,
          format \in {"", "ndjson", "csv", "xml"}, headerErr \in BOOLEAN :
          ExportBegin(f, sortParam, format, headerErr)
    \/ \E deadline, queryErr \in BOOLEAN, failAt \in 0 .. ExportPageSize :
          ExportPage(deadline, queryErr, failAt)

SpecExport == InitExport /\ [][NextExport]_vars

\* the handler's goroutine runs on: each pass is bounded by the request's
\* 30-second context
SpecExportLive ==
    SpecExport /\ WF_vars(\E deadline, queryErr \in BOOLEAN, failAt \in 0 .. ExportPageSize :
                             ExportPage(deadline, queryErr, failAt))

(***************************************************************************)
(* The pagination loops of the GitHub clients and what the poll loops do   *)
(* with what they return: Client.GetRepoEvents, Client.fetchAllReactions   *)
(* (behind GetIssueReactions), Client.GetAllPRs and                        *)
(* GraphQLClient.FetchDiscussions.  Items are counted, not told apart.     *)
(***************************************************************************)

\* for page := 2; page <= 10; page++
EventPages == 10

\* for page := 1; page <= 50; page++
ReactionPages == 50

\* for page := 0; page < 10; page++
DiscussionPages == 10

\* per_page, the items of a full page
PerPage == 2

\* the requests a server is followed through
MaxRequests == 52

Endpoints == {"events", "reactions", "discussions", "allPRs"}

\* what one request meets: "error" is an error from doRequest or doQuery
\* (transport, rate limit, GraphQL status or errors), "status" a REST answer
\* other than 200, "decode" a body that does not decode, "notModified" a 304,
\* "ok" a page of n items with or without a next page announced
Answer(kind, n, next) == [ kind |-> kind, n |-> n, next |-> next ]

Answers ==
    { Answer(kind, 0, FALSE) : kind \in {"error", "status", "decode", "notModified"} }
    \cup { Answer("ok", n, next) : n \in 0 .. PerPage, next \in BOOLEAN }

\* the function returns: its result, its error, and what the poll loop that
\* called it goes on to process
Returned(f, result, err, failed, ingested) ==
    [ f EXCEPT !.state = "returned", !.result = result, !.err = err, !.failed = failed,
               !.ingested = ingested ]

\* GetRepoEvents after one more answer; fetchAndProcessEvents returns on an
\* error and on nil events, and processes every event otherwise
GetRepoEventsStep(f, a) ==
    IF f.requests = 0
    THEN CASE a.kind \in {"error", "status", "decode"} -> Returned(f, 0, TRUE, TRUE, 0)
           [] a.kind = "notModified" -> Returned(f, 0, FALSE, FALSE, 0)
           [] OTHER ->
                IF a.next /\ 2 <= EventPages
                THEN [ f EXCEPT !.items = a.n, !.page = 2 ]
                ELSE Returned([ f EXCEPT !.items = a.n ], a.n, FALSE, FALSE, a.n)
    ELSE IF a.kind # "ok" THEN Returned(f, f.items, FALSE, TRUE, f.items)
    ELSE IF a.n = 0 THEN Returned(f, f.items, FALSE, FALSE, f.items)
    ELSE IF a.next /\ f.page + 1 <= EventPages
    THEN [ f EXCEPT !.items = @ + a.n, !.page = @ + 1 ]
    ELSE Returned([ f EXCEPT !.items = @ + a.n ], f.items + a.n, FALSE, FALSE, f.items + a.n)

\* the loop condition page <= 50 fails
ReactionPageCapReached(page) == page > ReactionPages

\* fetchAllReactions after one more answer; fetchAndProcessReactions goes on
\* to the next pull request on an error and inserts every reaction otherwise
FetchAllReactionsStep(f, a) ==
    IF a.kind # "ok" THEN Returned(f, f.items, TRUE, TRUE, 0)
    ELSE IF ~a.next \/ a.n = 0 \/ ReactionPageCapReached(f.page + 1)
    THEN Returned([ f EXCEPT !.items = @ + a.n ], f.items + a.n, FALSE, FALSE, f.items + a.n)
    ELSE [ f EXCEPT !.items = @ + a.n, !.page = @ + 1 ]

\* FetchDiscussions after one more answer; fetchAndProcessDiscussions returns
\* on an error and inserts for every discussion otherwise
FetchDiscussionsStep(f, a) ==
    CASE a.kind \in {"error", "status"} ->
           IF f.items > 0 THEN Returned(f, f.items, FALSE, TRUE, f.items)
           ELSE Returned(f, 0, TRUE, TRUE, 0)
      [] a.kind = "decode" -> Returned(f, f.items, TRUE, TRUE, 0)
      [] OTHER ->
           IF ~a.next \/ ~(f.page + 1 < DiscussionPages)
           THEN Returned([ f EXCEPT !.items = @ + a.n ], f.items + a.n, FALSE, FALSE,
                         f.items + a.n)
           ELSE [ f EXCEPT !.items = @ + a.n, !.page = @ + 1 ]

\* GetAllPRs after one more answer; fetchAndProcessReactions returns on an
\* error and polls every pull request otherwise
GetAllPRsStep(f, a) ==
    IF a.kind # "ok" THEN Returned(f, 0, TRUE, TRUE, 0)
    ELSE IF a.n = 0 THEN Returned(f, f.items, FALSE, FALSE, f.items)
    ELSE IF a.n < PerPage
    THEN Returned([ f EXCEPT !.items = @ + a.n ], f.items + a.n, FALSE, FALSE, f.items + a.n)
    ELSE [ f EXCEPT !.items = @ + a.n, !.page = @ + 1 ]

fetchFrame ==
    UNCHANGED <<events, last, concVars, pageVars, feedVars, ghVars, lifeVars, loopVars,
                exportVars, obsVars, intake, norm, svcVars>>

\* a poll loop calls one of the four functions
FetchBegin(endpoint) ==
    /\ fetch.state # "paging"
    /\ fetch' = [ NoFetch EXCEPT !.endpoint = endpoint, !.state = "paging",
                                 !.page = IF endpoint = "discussions" THEN 0 ELSE 1 ]
    /\ fetchFrame

\* one request of the loop and its answer, up to the next request or the
\* return
PageRequest(a) ==
    /\ fetch.state = "paging"
    /\ fetch.requests < MaxRequests
    /\ a.kind = "notModified" => fetch.endpoint = "events" /\ fetch.requests = 0
    /\ LET f == CASE fetch.endpoint = "events" -> GetRepoEventsStep(fetch, a)
                  [] fetch.endpoint = "reactions" -> FetchAllReactionsStep(fetch, a)
                  [] fetch.endpoint = "discussions" -> FetchDiscussionsStep(fetch, a)
                  [] OTHER -> GetAllPRsStep(fetch, a)
       IN fetch' = [ f EXCEPT !.requests = @ + 1 ]
    /\ fetchFrame

NextFetch ==
    \/ \E endpoint \in Endpoints : FetchBegin(endpoint)
    \/ \E a \in Answers : PageRequest(a)

SpecFetch == Init /\ [][NextFetch]_vars

(***************************************************************************)
(* The events loop with the feed GitHub holds (ingester.go                 *)
(* fetchAndProcessEvents, Client.GetRepoEvents and doRequestWithETag).     *)
(* The feed's ETag changes with every raw event added; a request carrying  *)
(* the current ETag is answered 304, any other one 200 with the feed.      *)
(***************************************************************************)

\* the raw events the feed comes to hold
MaxFeed == 4

\* raw events parseGitHubEvent gives nothing for: an unrecognized type, an
\* unrecognized action of a known type, a payload that does not unmarshal
SkippedRaws ==
    << RawUnknownEvent, RawPullRequestEvent("labeled", 1, FALSE),
       RawMalformedEvent("PullRequestEvent") >>

\* what may come i-th into the feed: pull request i is opened, or one of the
\* raw events that are skipped
FeedRaws(i) ==
    { RawPullRequestEvent("opened", i, FALSE), SkippedRaws[1 + (i % Len(SkippedRaws))] }

\* (mutant) the saved ETag overwritten with whatever the header holds
SavedETag_Always(lastEventETag, newETag) == newETag

\* if newETag != "" { ing.lastEventETag = newETag }
SavedETag(lastEventETag, newETag) == IF newETag # 0 THEN newETag ELSE lastEventETag

\* the loop of fetchAndProcessEvents over a batch, the database up or down
\* at each raw event: the table, openPRs, the breaker count and the last store
\* call after it, and the raw events the breaker left unprocessed
RECURSIVE RunBatch(_, _, _, _, _, _)
RunBatch(S, open, batch, up, dbErrors, call) ==
    IF batch = <<>> \/ dbErrors >= 3
    THEN [ rows |-> S, openPRs |-> open, left |-> batch, dbErrors |-> dbErrors,
           call |-> call ]
    ELSE LET parsed == parseGitHubEvent(S, open, batch[1], up[1])
             done == InsertAll(parsed.rows, parsed.events, dbErrors, parsed.call, up[1])
         IN RunBatch(done.rows, parsed.openPRs, Tail(batch), Tail(up), done.dbErrors,
                     IF parsed.events = <<>> /\ parsed.call = NoCall THEN call ELSE done.call)

\* something happens in the repository
Activity(raw) ==
    /\ Len(intake.feed) < MaxFeed
    /\ intake' = [ intake EXCEPT !.feed = Append(@, raw) ]
    /\ UNCHANGED <<events, last, concVars, pageVars, feedVars, ghVars, lifeVars, loopVars,
                   exportVars, obsVars, fetch, norm, svcVars>>

\* one fetchAndProcessEvents: the request with the saved ETag fails, or is
\* answered 304, or 200 with the feed and with or without an ETag header; up
\* is the database's state at each raw event of the batch
EventsCycle(err, withETag, up) ==
    /\ Len(up) = Len(intake.feed)
    /\ LET sent == intake.lastEventETag
           current == Len(intake.feed) + 1
           notModified == sent # 0 /\ sent = current
           done == RunBatch(events, openPRs, intake.feed, up, 0, last)
           owed == IF intake.answer = "error" THEN intake.owed ELSE intake.left
       IN IF err \/ notModified
          THEN /\ intake' = [ intake EXCEPT
                                !.sent = sent,
                                !.answer = IF err THEN "error" ELSE "notModified",
                                !.batch = <<>>, !.up = <<>>, !.left = <<>>,
                                !.owed = owed, !.dbErrors = 0,
                                !.openBefore = openPRs ]
               /\ poll' = [ poll EXCEPT !.eventsStatus = IF err THEN "error" ELSE "running" ]
               /\ UNCHANGED <<events, last, openPRs>>
          ELSE /\ intake' = [ intake EXCEPT
                                !.lastEventETag =
                                    SavedETag(@, IF withETag THEN current ELSE 0),
                                !.sent = sent,
                                !.answer = "changed",
                                !.batch = intake.feed, !.up = up, !.left = done.left,
                                !.owed = owed, !.dbErrors = done.dbErrors,
                                !.openBefore = openPRs ]
               /\ poll' = [ poll EXCEPT !.eventsStatus = "running" ]
               /\ events' = done.rows
               /\ openPRs' = done.openPRs
               /\ last' = done.call
    /\ before' = events
    /\ UNCHANGED <<backfill, delivery, concVars, pageVars, ghVars, lifeVars, loopVars,
                   exportVars, fetch, norm, svcVars>>

\* the states of the database over a batch of n raw events: up, but for one
\* outage from raw event a to raw event b
Ups(n) == { [ i \in 1 .. n |-> ~(a <= i /\ i <= b) ] : a \in 1 .. n + 1, b \in 0 .. n }

\* the database up throughout
AllUp(n) == [ i \in 1 .. n |-> TRUE ]

NextIntake ==
    \/ \E raw \in FeedRaws(Len(intake.feed) + 1) : Activity(raw)
    \/ \E up \in Ups(Len(intake.feed)) : EventsCycle(FALSE, TRUE, up)
    \/ \E err \in BOOLEAN : EventsCycle(err, FALSE, AllUp(Len(intake.feed)))

SpecIntake == Init /\ [][NextIntake]_vars

(***************************************************************************)
(* The producers side by side: one pass of the events loop over one raw    *)
(* event (parseGitHubEvent and the inserts of what it returns), and the    *)
(* events the reaction poller, the discussion poller and the backfill      *)
(* steps build and hand to Store.Insert.                                   *)
(***************************************************************************)

\* an issue comment on a pull request (the issue carries the pull_request
\* marker) or on a plain issue
RawIssueCommentOn(onPR, action, commentID, body, from, createdAt) ==
    [ RawIssueCommentEvent(action, commentID, body, from, createdAt)
        EXCEPT !.Payload.issue.pull_request = onPR ]

\* the comment-shaped raw events: created, edited with and without a previous
\* body in the changes, deleted, and an action GitHub may add
CommentActions == {"created", "edited", "deleted", "pinned"}

\* the previous body goes with an edit only
CommentChanges == { <<action, from>> \in CommentActions \X {"", "old"} :
                      from = "old" => action = "edited" }

CommentShapedRaws ==
    { RawIssueCommentOn(onPR, c[1], 1, "new", c[2], 2) :
        onPR \in BOOLEAN, c \in CommentChanges }
    \cup { RawReviewCommentEvent(c[1], 1, "new", c[2], 2) : c \in CommentChanges }
    \cup { RawCommitCommentEvent(c[1], 1, "new", c[2], 2) : c \in CommentChanges }

\* one pass of the loop of fetchAndProcessEvents with the breaker closed:
\* parseGitHubEvent, then the inserts
ParseAndInsert(raw, dbUp) ==
    LET parsed == parseGitHubEvent(events, openPRs, raw, dbUp)
        done == InsertAll(parsed.rows, parsed.events, 0, parsed.call, dbUp)
    IN /\ Cardinality(done.rows) <= MaxRows
       /\ \A r \in done.rows : Len(r.edit_history) <= MaxEdits
       /\ events' = done.rows
       /\ openPRs' = parsed.openPRs
       /\ last' = done.call
       /\ norm' = [ raw |-> raw, events |-> parsed.events, err |-> parsed.err,
                    call |-> parsed.call ]
       /\ UNCHANGED <<poll, backfill, concVars, pageVars, ghVars, lifeVars, loopVars,
                      exportVars, obsVars, fetch, intake, svcVars>>

\* backfill step 4: a reaction on issue issueNumber
IssueReactionEvent(u, issueNumber, content, createdAt) ==
    Event("reaction", u, UserID(u), Null, Some(issueNumber), Null, Null, Choice(content),
          Some(content), Some(ReactionID(u, FALSE, content) + 50),
          [ id |-> ReactionID(u, FALSE, content) + 50, content |-> content, user |-> u,
            created_at |-> createdAt, issue_number |-> issueNumber ],
          createdAt)

\* fetchAndProcessDiscussions / backfill step 9: reaction number n of a
\* discussion; the number is used as the id
DiscussionReactionEvent(u, number, n, content) ==
    Event("reaction", u, 0, Null, Null, Some(number), Null, Choice(content),
          Some(content), Some(n),
          [ number |-> n, content |-> content, user |-> u ], 3)

\* backfill step 5: the event for a comment whose issue_url names parent, with
\* the pull requests and the issues steps 1 and 2 had listed
BackfillCommentEvent(commentID, parent, prByNumber, issueByNumber) ==
    Event("issue_comment", "alice", UserID("alice"),
          IF parent \in prByNumber THEN Some(parent) ELSE Null,
          IF parent \notin prByNumber /\ parent \in issueByNumber THEN Some(parent) ELSE Null,
          Null, Some(commentID), Null, Null, Some(commentID),
          [ action |-> "created", issue |-> [ number |-> parent ],
            comment |-> [ id |-> commentID, body |-> "new", created_at |-> 1,
                          user |-> [ login |-> "alice", id |-> UserID("alice") ] ] ],
          1)

\* backfill step 2: the event for an issue
BackfillIssueEvent(number, state) ==
    Event(IF state = "closed" THEN "issue_closed" ELSE "issue_opened", "alice",
          UserID("alice"), Null, Some(number), Null, Null, Null, Null, Some(2000 + number),
          [ action |-> IF state = "closed" THEN "closed" ELSE "opened",
            issue |-> [ number |-> number, state |-> state ] ],
          1)

\* what the pollers and the backfill hand to Store.Insert: pull request 1 and
\* issue 2 are listed, item 3 has appeared since
ProducedEvents ==
    { PRReactionEvent("alice", 1, c, 1) : c \in Contents }
    \cup { CommentReactionEvent("alice", 1, c, 1) : c \in Contents }
    \cup { IssueReactionEvent("alice", 2, c, 1) : c \in Contents }
    \cup { DiscussionReactionEvent("alice", 1, 7, c) : c \in Contents }
    \cup { DiscussionCreatedEvent("alice", 1), DiscussionCommentEvent("bob", 1, 2) }
    \cup { BackfillPREvent(GitHubPR(1, "open", FALSE)), BackfillIssueEvent(2, "open") }
    \cup { BackfillCommentEvent(3, parent, {1}, {2}) : parent \in {1, 2, 3} }
    \cup { Event("star", "bob", UserID("bob"), Null, Null, Null, Null, Null, Null,
                 Some(500), [ starred_at |-> 1 ], 1) }

NextNorm == \E raw \in CommentShapedRaws, dbUp \in BOOLEAN : ParseAndInsert(raw, dbUp)

SpecNorm == Init /\ [][NextNorm]_vars

NextProducers ==
    \/ \E raw \in { r \in CommentShapedRaws : r.Payload.action = "created" } :
          ParseAndInsert(raw, TRUE)
    \/ \E e \in ProducedEvents : Insert(e)

SpecProducers == Init /\ [][NextProducers]_vars

(***************************************************************************)
(* The loop of fetchAndProcessDiscussions over one answer, insert by       *)
(* insert: for every discussion its own event, then its comments, then     *)
(* its reactions.                                                          *)
(***************************************************************************)

\* a discussion as FetchDiscussions returns it: comments and reactions are
\* numbered by their position in the answer
Discussion(number, comments, contents) ==
    [ number |-> number, author |-> "alice",
      comments |-> [ i \in 1 .. comments |-> [ number |-> i, author |-> "bob" ] ],
      reactions |-> [ i \in 1 .. Len(contents) |->
                        [ number |-> i, content |-> contents[i], user |-> "bob" ] ] ]

\* (mutant) the children handed to the store before their discussion
DerivedOf_ChildrenFirst(d) ==
    [ i \in 1 .. Len(d.comments) |->
        DiscussionCommentEvent(d.comments[i].author, d.number, d.comments[i].number) ]
    \o [ i \in 1 .. Len(d.reactions) |->
           DiscussionReactionEvent(d.reactions[i].user, d.number, d.reactions[i].number,
                                   d.reactions[i].content) ]
    \o << DiscussionCreatedEvent(d.author, d.number) >>

\* the body of the loop: the events of one discussion in the order of their
\* inserts
DerivedOf(d) ==
    << DiscussionCreatedEvent(d.author, d.number) >>
    \o [ i \in 1 .. Len(d.comments) |->
           DiscussionCommentEvent(d.comments[i].author, d.number, d.comments[i].number) ]
    \o [ i \in 1 .. Len(d.reactions) |->
           DiscussionReactionEvent(d.reactions[i].user, d.number, d.reactions[i].number,
                                   d.reactions[i].content) ]

\* for _, discussion := range discussions
RECURSIVE DerivedEvents(_)
DerivedEvents(answer) ==
    IF answer = <<>> THEN <<>> ELSE DerivedOf(answer[1]) \o DerivedEvents(Tail(answer))

\* the comments and the reactions a discussion of the answer may have
DiscussionShapes == { <<0, <<>>>>, <<2, <<>>>>, <<1, <<"+1">>>>, <<2, <<"heart", "-1">>>> }

\* the answers of FetchDiscussions: one discussion, or both in either order
DiscussionAnswers ==
    { << Discussion(d, s[1], s[2]) >> : d \in DiscussionNumbers, s \in DiscussionShapes }
    \cup { << Discussion(d, s[1], s[2]), Discussion(3 - d, t[1], t[2]) >> :
             d \in DiscussionNumbers, s \in DiscussionShapes, t \in DiscussionShapes }

\* fetchAndProcessDiscussions up to its loop, FetchDiscussions answering
DiscussionsCycleBegin(answer) ==
    /\ discussions.pc = "idle"
    /\ discussions' = [ discussions EXCEPT !.pc = "draining",
                                           !.discussionsStatus = "running",
                                           !.queue = DerivedEvents(answer),
                                           !.tried = <<>> ]
    /\ before' = events
    /\ UNCHANGED <<events, last, feedVars, reactions, concVars, pageVars, ghVars,
                   lifeVars, exportVars, delivery, intakeVars, svcVars>>

\* the next ing.store.Insert of the loop; its error is logged, the loop goes on
InsertDerivedEvent(dbUp) ==
    /\ discussions.pc = "draining"
    /\ LET n == Head(discussions.queue)
           id == NewID(events)
           ret == InsertReturn(events, n, id, dbUp)
           rows == IF dbUp THEN InsertRows(events, n, id) ELSE events
       IN /\ rows # events => Cardinality(events) < MaxRows
          /\ events' = rows
          /\ last' = [ op |-> "Insert", arg |-> n, dbUp |-> dbUp, err |-> ret.err,
                       ID |-> ret.ID, IngestedAt |-> ret.IngestedAt,
                       changed |-> rows # events, rep |-> 1, firstID |-> ret.ID ]
          /\ discussions' =
               [ discussions EXCEPT
                   !.pc = IF Len(discussions.queue) = 1 THEN "idle" ELSE "draining",
                   !.queue = Tail(@),
                   !.tried = Append(@, n) ]
    /\ UNCHANGED <<feedVars, reactions, concVars, pageVars, ghVars, lifeVars, exportVars,
                   obsVars, intakeVars, svcVars>>

NextDiscussionOrder ==
    \/ \E answer \in DiscussionAnswers : DiscussionsCycleBegin(answer)
    \/ \E dbUp \in BOOLEAN : InsertDerivedEvent(dbUp)

SpecDiscussionOrder == Init /\ [][NextDiscussionOrder]_vars

(***************************************************************************)
(* The PRCache (internal/github/cache.go): a map from pull request number  *)
(* to the cached pull request under one RWMutex.  Every method holds the   *)
(* lock from its first statement to its return, so the calls of            *)
(* different goroutines take effect one at a time, in some order.          *)
(***************************************************************************)

\* the ttl of the server's cache, 5 minutes, in ticks of the clock
TTL == 2

\* the clock stops here
MaxNow == 4

\* a cached pull request
CachedPR(number, state, cachedAt) ==
    [ Number |-> number, State |-> state, CachedAt |-> cachedAt ]

\* (mutant) an entry never expires
Expired_Never(pr, now) == FALSE

\* time.Since(pr.CachedAt) > c.ttl
Expired(pr, now) == now - pr.CachedAt > TTL

\* c.prs[pr.Number] = pr with pr.CachedAt = time.Now()
UpdatePRMap(prs, number, state, now) ==
    { pr \in prs : pr.Number # number } \cup { CachedPR(number, state, now) }

\* GetPR: the entry of number unless absent or expired; Null for nil, false
GetPRResult(prs, number, now) ==
    IF \E pr \in prs : pr.Number = number /\ ~Expired(pr, now)
    THEN Some(CHOOSE pr \in prs : pr.Number = number)
    ELSE Null

\* GetOpenPRs: the open entries that have not expired
GetOpenPRsResult(prs, now) ==
    { pr \in prs : pr.State = "open" /\ ~Expired(pr, now) }

\* CleanExpired: the map without the expired entries
CleanExpiredMap(prs, now) == { pr \in prs : ~Expired(pr, now) }

CacheReturned(op, arg, out) ==
    [ op |-> op, arg |-> arg, out |-> out, at |-> cache.now, had |-> cache.prs ]

cacheFrame ==
    UNCHANGED <<events, last, concVars, pageVars, feedVars, ghVars, lifeVars, loopVars,
                exportVars, obsVars, intakeVars, limiter, guard>>

UpdatePR(number, state) ==
    /\ cache' = [ cache EXCEPT
                    !.prs = UpdatePRMap(@, number, state, cache.now),
                    !.written = UpdatePRMap(@, number, state, cache.now),
                    !.ret = CacheReturned("UpdatePR", number, Null) ]
    /\ cacheFrame

GetPR(number) ==
    /\ cache' = [ cache EXCEPT
                    !.ret = CacheReturned("GetPR", number,
                                          GetPRResult(cache.prs, number, cache.now)) ]
    /\ cacheFrame

GetOpenPRs ==
    /\ cache' = [ cache EXCEPT
                    !.ret = CacheReturned("GetOpenPRs", Null,
                                          GetOpenPRsResult(cache.prs, cache.now)) ]
    /\ cacheFrame

DeletePR(number) ==
    /\ cache' = [ cache EXCEPT
                    !.prs = { pr \in @ : pr.Number # number },
                    !.written = { pr \in @ : pr.Number # number },
                    !.ret = CacheReturned("DeletePR", number, Null) ]
    /\ cacheFrame

Clear ==
    /\ cache' = [ cache EXCEPT !.prs = {}, !.written = {},
                               !.ret = CacheReturned("Clear", Null, Null) ]
    /\ cacheFrame

CleanExpired ==
    /\ cache' = [ cache EXCEPT
                    !.prs = CleanExpiredMap(@, cache.now),
                    !.ret = CacheReturned("CleanExpired", Null,
                                          Cardinality(cache.prs)
                                          - Cardinality(CleanExpiredMap(cache.prs, cache.now))) ]
    /\ cacheFrame

\* time passes
CacheTick ==
    /\ cache.now < MaxNow
    /\ cache' = [ cache EXCEPT !.now = @ + 1 ]
    /\ cacheFrame

NextCache ==
    \/ \E number \in PRNumbers, state \in {"open", "closed"} : UpdatePR(number, state)
    \/ \E number \in PRNumbers : GetPR(number)
    \/ GetOpenPRs
    \/ \E number \in PRNumbers : DeletePR(number)
    \/ Clear
    \/ CleanExpired
    \/ CacheTick

SpecCache == Init /\ [][NextCache]_vars

(***************************************************************************)
(* The two records of open pull requests side by side: Ingester.openPRs,   *)
(* written by the events loop, and the PRCache, written by the GitHub      *)
(* client when the reactions loop lists the open pull requests.            *)
(***************************************************************************)

\* Client.GetOpenPRs with GitHub answering the pull requests in open: every
\* one is put into the cache
ClientGetOpenPRs(open) ==
    /\ cache' = [ cache EXCEPT
                    !.prs = { pr \in @ : pr.Number \notin open }
                            \cup { CachedPR(number, "open", cache.now) : number \in open },
                    !.written = { pr \in @ : pr.Number \notin open }
                                \cup { CachedPR(number, "open", cache.now) : number \in open },
                    !.ret = CacheReturned("UpdatePR", Null, Null) ]
    /\ cacheFrame

\* the lifecycle events of pull request 1 and of issue 2 as the feed delivers
\* them
LifecycleRaws ==
    { RawPullRequestEvent(action, 1, FALSE) : action \in {"opened", "closed", "reopened"} }
    \cup { RawIssuesEvent(action, 2) : action \in {"opened", "closed"} }

NextTracking ==
    \/ \E raw \in LifecycleRaws : ParseAndInsert(raw, TRUE)
    \/ \E open \in {{}, {1}} : ClientGetOpenPRs(open)
    \/ CacheTick

SpecTracking == Init /\ [][NextTracking]_vars

(***************************************************************************)
(* Comment edits next to the reactions on comments: the backfill writes a  *)
(* reaction on a comment with the comment's id in comment_id (step 6), the *)
(* events loop applies the edits of the comment.                           *)
(***************************************************************************)

\* comment 1 created and edited twice, comment 2 edited
EditRaws ==
    { RawIssueCommentEvent("created", 1, "hello", "", 1),
      RawIssueCommentEvent("edited", 1, "hello world", "hello", 2),
      RawIssueCommentEvent("edited", 1, "bye", "hello world", 3),
      RawIssueCommentEvent("edited", 2, "bye", "hello", 2) }

\* reactions on comment 1
CommentReactions ==
    { CommentReactionEvent("alice", 1, "+1", 1), CommentReactionEvent("bob", 1, "heart", 1) }

NextEditFrame ==
    \/ \E raw \in EditRaws : ParseAndInsert(raw, TRUE)
    \/ \E e \in CommentReactions : Insert(e)

SpecEditFrame == Init /\ [][NextEditFrame]_vars

(***************************************************************************)
(* A client walking the pages of GET /api/feed while the events loop       *)
(* processes comment deletions: the cursor is the id of the last row of    *)
(* the page before, and listInternal looks its position up in the table.   *)
(***************************************************************************)

\* the comments are created before the client's first request
CommentArrives(c) ==
    /\ pager.state = "idle"
    /\ ParseAndInsert(RawIssueCommentEvent("created", c, "hello", "", c), TRUE)

\* the events loop processes the deleted event of comment c while the client
\* is between two pages
CommentDeletedBetweenPages(c) ==
    /\ pager.state = "paging"
    /\ ParseAndInsert(RawIssueCommentEvent("deleted", c, "hello", "", 3), TRUE)

NextDeletion ==
    \/ \E c \in CommentIDs : CommentArrives(c)
    \/ \E sp \in {"newest", "oldest"}, lp \in {Some(1), Some(2)} : ListFirst(NoFilters, sp, lp)
    \/ ListNext
    \/ \E c \in CommentIDs : CommentDeletedBetweenPages(c)

SpecDeletion == Init /\ [][NextDeletion]_vars

(***************************************************************************)
(* The sliding-window rate limiter (internal/api/ratelimit.go).  One       *)
(* RateLimiter is modelled, with the parameters of the export limiter; a   *)
(* tick of the clock is half a window.  Allow is split where it takes and  *)
(* releases a mutex, so that the cleanup goroutine and other calls of      *)
(* Allow interleave with it as the locks permit.                           *)
(***************************************************************************)
RateLimit == 2
RateWindow == 2
MaxClock == 2
MaxWindows == 3
MaxAllowed == 3
MaxCallers == 2

\* slidingWindow.pruneOld: the timestamps without the leading ones that are
\* before now - window
RECURSIVE pruneOld(_, _, _)
pruneOld(timestamps, now, window) ==
    IF timestamps # <<>> /\ Head(timestamps) < now - window
    THEN pruneOld(Tail(timestamps), now, window)
    ELSE timestamps

limiterFrame ==
    UNCHANGED <<events, last, concVars, pageVars, feedVars, ghVars, lifeVars, loopVars,
                exportVars, obsVars, intakeVars, cache>>

\* Allow, to the first Lock: the key and time.Now() are read
AllowEnter(t, key) ==
    /\ limiter.call[t].pc = "idle"
    /\ Len(limiter.sw)
         + Cardinality({ u \in Goroutines : limiter.call[u].pc \in {"lockRL", "lookup"} })
         < MaxWindows
    /\ limiter' = [ limiter EXCEPT
                      !.call[t] = [ NoAllow EXCEPT !.pc = "lockRL", !.key = key,
                                                   !.now = limiter.clock ] ]

\* rl.mu.Lock()
AllowLockMap(t) ==
    /\ limiter.call[t].pc = "lockRL"
    /\ limiter.mu = 0
    /\ limiter' = [ limiter EXCEPT !.mu = t, !.call[t].pc = "lookup" ]

\* the window of the key is looked up, or allocated and put into the map;
\* rl.mu.Unlock()
AllowLookup(t) ==
    LET key == limiter.call[t].key
        exists == limiter.windows[key] # 0
        sw == IF exists THEN limiter.windows[key] ELSE Len(limiter.sw) + 1
    IN  /\ limiter.call[t].pc = "lookup"
        /\ limiter' = [ limiter EXCEPT
                          !.sw = IF exists THEN @
                                 ELSE Append(@, [ timestamps |-> <<>>, mu |-> 0 ]),
                          !.windows[key] = sw,
                          !.mu = 0,
                          !.call[t].sw = sw,
                          !.call[t].pc = "lockSW" ]

\* sw.mu.Lock()
AllowLockWindow(t) ==
    LET sw == limiter.call[t].sw
    IN  /\ limiter.call[t].pc = "lockSW"
        /\ limiter.sw[sw].mu = 0
        /\ limiter' = [ limiter EXCEPT !.sw[sw].mu = t, !.call[t].pc = "decide" ]

\* the rest of Allow under sw.mu: prune, compare with the limit, append; the
\* deferred Unlock
AllowDecide(t) ==
    LET c == limiter.call[t]
        kept == pruneOld(limiter.sw[c.sw].timestamps, c.now, RateWindow)
        out == Len(kept) < RateLimit
    IN  /\ c.pc = "decide"
        /\ limiter' = [ limiter EXCEPT
                          !.sw[c.sw] = [ timestamps |-> IF out THEN Append(kept, c.now)
                                                        ELSE kept,
                                         mu |-> 0 ],
                          !.call[t].pc = "returned",
                          !.call[t].out = out,
                          !.allowed = IF out
                                      THEN Append(@, [ key |-> c.key, now |-> c.now,
                                                       at |-> limiter.clock ])
                                      ELSE @ ]

\* the caller has the answer of Allow
AllowReturned(t) ==
    /\ limiter.call[t].pc = "returned"
    /\ limiter' = [ limiter EXCEPT !.call[t] = NoAllow ]

\* cleanup, a tick of the ticker received: rl.mu.Lock(), time.Now(), and the
\* range over the map begins
CleanupBegin ==
    /\ limiter.cleanup.pc = "wait"
    /\ limiter.clock >= (limiter.ticks + 1) * RateWindow
    /\ limiter.mu = 0
    /\ limiter' = [ limiter EXCEPT
                      !.mu = -1,
                      !.ticks = @ + 1,
                      !.cleanup = [ pc |-> "range", now |-> limiter.clock,
                                    todo |-> { k \in ClientKeys : limiter.windows[k] # 0 } ] ]

\* cleanup, one iteration of the range: the window is locked, pruned, deleted
\* from the map when empty, and unlocked
CleanupVisit(key) ==
    LET sw == limiter.windows[key]
        kept == pruneOld(limiter.sw[sw].timestamps, limiter.cleanup.now, RateWindow)
    IN  /\ limiter.cleanup.pc = "range"
        /\ key \in limiter.cleanup.todo
        /\ limiter.sw[sw].mu = 0
        /\ limiter' = [ limiter EXCEPT
                          !.sw[sw].timestamps = kept,
                          !.windows[key] = IF kept = <<>> THEN 0 ELSE @,
                          !.cleanup.todo = @ \ {key} ]

\* cleanup, the range is over: rl.mu.Unlock()
CleanupEnd ==
    /\ limiter.cleanup.pc = "range"
    /\ limiter.cleanup.todo = {}
    /\ limiter' = [ limiter EXCEPT !.mu = 0, !.cleanup.pc = "wait" ]

\* time passes
LimiterTick ==
    /\ limiter.clock < MaxClock
    /\ limiter' = [ limiter EXCEPT !.clock = @ + 1 ]

NextLimiter ==
    \/ \E t \in 1 .. MaxCallers, key \in ClientKeys :
         /\ Len(limiter.allowed) < MaxAllowed
         /\ AllowEnter(t, key) /\ UNCHANGED guard /\ limiterFrame
    \/ \E t \in 1 .. MaxCallers : AllowLockMap(t) /\ UNCHANGED guard /\ limiterFrame
    \/ \E t \in 1 .. MaxCallers : AllowLookup(t) /\ UNCHANGED guard /\ limiterFrame
    \/ \E t \in 1 .. MaxCallers : AllowLockWindow(t) /\ UNCHANGED guard /\ limiterFrame
    \/ \E t \in 1 .. MaxCallers : AllowDecide(t) /\ UNCHANGED guard /\ limiterFrame
    \/ \E t \in 1 .. MaxCallers : AllowReturned(t) /\ UNCHANGED guard /\ limiterFrame
    \/ CleanupBegin /\ UNCHANGED guard /\ limiterFrame
    \/ \E key \in ClientKeys : CleanupVisit(key) /\ UNCHANGED guard /\ limiterFrame
    \/ CleanupEnd /\ UNCHANGED guard /\ limiterFrame
    \/ LimiterTick /\ UNCHANGED guard /\ limiterFrame

SpecLimiter == Init /\ [][NextLimiter]_vars

(***************************************************************************)
(* The export route: ExportGuardMiddleware around FeedHandler.Export       *)
(* (internal/api/ratelimit.go, router.go).  A request runs on a goroutine  *)
(* of its own; its call of Allow takes the steps of the limiter above.     *)
(***************************************************************************)
ExportSlots == 3
MaxExportRequests == 5

\* how FeedHandler.Export returns: 400 before anything is written, or 200 with
\* the stream complete or cut short by a query error, a write error or the
\* 30 s deadline
ExportOutcomes == { [ status |-> 400, how |-> "invalid format" ],
                    [ status |-> 200, how |-> "complete" ],
                    [ status |-> 200, how |-> "cut short" ] }

guardFrame ==
    UNCHANGED <<events, last, concVars, pageVars, feedVars, ghVars, lifeVars, loopVars,
                exportVars, obsVars, intakeVars, cache>>

\* a request for /export reaches the middleware, which calls exportRL.Allow
ExportGuardEnter(t, key) ==
    /\ guard.req[t].pc = "idle"
    /\ guard.requests < MaxExportRequests
    /\ AllowEnter(t, key)
    /\ guard' = [ guard EXCEPT !.req[t] = [ NoRequest EXCEPT !.pc = "allow" ],
                               !.requests = @ + 1 ]

\* the deferred receive from ExportSemaphore; it runs however next.ServeHTTP
\* ended
ReleaseSlot_Never(slots) == slots

ReleaseSlot(slots) == slots - 1

\* the middleware after Allow has answered: 429, or the select on the
\* semaphore, which sends when the channel has room and else answers 503
ExportGuardSelect(t) ==
    LET out == limiter.call[t].out
    IN  /\ guard.req[t].pc = "allow"
        /\ limiter.call[t].pc = "returned"
        /\ limiter' = [ limiter EXCEPT !.call[t] = NoAllow ]
        /\ guard' = IF ~out
                    THEN [ guard EXCEPT !.req[t].pc = "done", !.req[t].status = 429 ]
                    ELSE IF guard.slots < ExportSlots
                    THEN [ guard EXCEPT !.slots = @ + 1,
                                        !.req[t].held = TRUE,
                                        !.req[t].pc = "serving" ]
                    ELSE [ guard EXCEPT !.req[t].pc = "done", !.req[t].status = 503 ]

\* next.ServeHTTP returns, and the deferred function gives the slot back
ExportReturns(t, outcome) ==
    /\ guard.req[t].pc = "serving"
    /\ guard' = [ guard EXCEPT !.slots = ReleaseSlot(@),
                               !.req[t].held = FALSE,
                               !.req[t].status = outcome.status,
                               !.req[t].pc = "done" ]
    /\ UNCHANGED limiter

\* the response is out and the goroutine takes another request
ExportGuardLeave(t) ==
    /\ guard.req[t].pc = "done"
    /\ guard' = [ guard EXCEPT !.req[t] = NoRequest ]
    /\ UNCHANGED limiter

NextGuard ==
    \/ \E t \in Goroutines, key \in ClientKeys : ExportGuardEnter(t, key) /\ guardFrame
    \/ \E t \in Goroutines : AllowLockMap(t) /\ UNCHANGED guard /\ guardFrame
    \/ \E t \in Goroutines : AllowLookup(t) /\ UNCHANGED guard /\ guardFrame
    \/ \E t \in Goroutines : AllowLockWindow(t) /\ UNCHANGED guard /\ guardFrame
    \/ \E t \in Goroutines : AllowDecide(t) /\ UNCHANGED guard /\ guardFrame
    \/ \E t \in Goroutines : ExportGuardSelect(t) /\ guardFrame
    \/ \E t \in Goroutines, outcome \in ExportOutcomes : ExportReturns(t, outcome) /\ guardFrame
    \/ \E t \in Goroutines : ExportGuardLeave(t) /\ guardFrame

SpecGuard == Init /\ [][NextGuard]_vars

(***************************************************************************)
(* The dedup rule of the data model: two events are the same fact when     *)
(* they share a non-null external identifier, or type, actor, fingerprint  *)
(* and occurred-at, or, for stars and forks, type and actor.               *)
(***************************************************************************)
SameKey(r, n) ==
    /\ r.type = n.type
    /\ r.github_user = n.github_user
    /\ r.content_hash = n.content_hash
    /\ r.occurred_at = n.occurred_at

SameFact(r, n) ==
    \/ n.github_id # Null /\ r.github_id = n.github_id
    \/ SameKey(r, n)
    \/ n.type \in {"star", "fork"} /\ r.type = n.type /\ r.github_user = n.github_user

\* the rows that carry e's identity: its external identifier, or, when that is
\* null, its {type, actor, fingerprint, occurred-at}
RowsOf(n) ==
    IF n.github_id # Null
    THEN { r \in events : r.github_id = n.github_id }
    ELSE { r \in events : SameKey(r, n) }

InsertedTwice == last.op = "Insert" /\ last.rep = 2

IsStarFork(r) == r.type \in {"star", "fork"}

\* C2: every Insert step leaves at most one star row and at most one fork row
\* per actor, and keeps every star and fork row that was there: the first one
\* inserted survives.
C2_StarForkFirstWriterWins ==
    [][ /\ \A a, b \in events' :
              (IsStarFork(a) /\ a.type = b.type /\ a.github_user = b.github_user) => a = b
        /\ \A r \in events : IsStarFork(r) => r \in events' ]_vars

\* C2 witness: star A (external id 100) is stored and star B of the same actor
\* (external id 200, another payload) has just been turned away.
C2_Witness ==
    /\ last.op = "Insert" /\ last.arg.type = "star" /\ last.ID = Null
    /\ last.arg.github_id = Some(200)
    /\ \E r \in events : /\ r.type = "star" /\ r.github_user = last.arg.github_user
                         /\ r.github_id = Some(100) /\ r.payload # last.arg.payload
    /\ ~\E r \in events : r.github_id = Some(200)

\* C9: an Insert of an event that is the same fact as a stored row returns no
\* error, changes no row and leaves the event's ID and IngestedAt unset; an
\* Insert of any other event adds exactly one row, the event's, and sets both.
C9_ConflictIsSilentNoOp ==
    [][ \A n \in EventInputs :
          (last'.op = "Insert" /\ last'.arg = n) =>
            IF \E r \in events : SameFact(r, n)
            THEN /\ events' = events
                 /\ last'.err = "nil"
                 /\ last'.ID = Null /\ last'.IngestedAt = Null
            ELSE /\ last'.err = "nil"
                 /\ Cardinality(events' \ events) = 1
                 /\ events \subseteq events'
                 /\ \A r \in events' \ events :
                       /\ last'.ID = Some(r.id) /\ last'.IngestedAt = Some(r.ingested_at)
                       /\ r.github_id = n.github_id /\ SameKey(r, n) ]_vars

\* C9 witness: an Insert has just met a conflict: no error, nothing populated.
C9_Witness ==
    /\ last.op = "Insert" /\ last.err = "nil" /\ last.ID = Null /\ ~last.changed
    /\ \E r \in events : SameFact(r, last.arg)

\* C3 as stated: under any interleaving of the producers' Insert calls no two
\* rows share a non-null external identifier, no two rows share {type, actor,
\* fingerprint, occurred-at}, and no actor has two star rows or two fork rows.
C3_NoDuplicateRows ==
    \A a, b \in events :
        a # b =>
            /\ ~(a.github_id # Null /\ a.github_id = b.github_id)
            /\ ~SameKey(a, b)
            /\ ~(IsStarFork(a) /\ a.type = b.type /\ a.github_user = b.github_user)

RowOf(id) == CHOOSE r \in events : r.id = id

\* the order the listing promises: ascending (occurred-at, id) for oldest,
\* descending otherwise
Precedes(a, b, sortParam) ==
    IF sortParam = "oldest" THEN RowLess(a, b) ELSE RowLess(b, a)

\* C4: for a fixed table, filter and sort direction, the pages fetched through
\* the returned cursors hold only matching rows, each at most once, in
\* (occurred-at, id) order and without a gap; when the last page has come
\* (no next cursor) every matching row has been returned exactly once.
C4_PagesCompleteInOrder ==
    pager.state # "idle" =>
        LET got == pager.got
            matching == { e \in events : Matches(e, pager.filters) } IN
        /\ \A i \in 1 .. Len(got) : \E r \in matching : r.id = got[i]
        /\ \A i, j \in 1 .. Len(got) : i < j => got[i] # got[j]
        /\ \A i, j \in 1 .. Len(got) :
              i < j => Precedes(RowOf(got[i]), RowOf(got[j]), pager.sort)
        /\ \A r \in matching : \A i \in 1 .. Len(got) :
              Precedes(r, RowOf(got[i]), pager.sort) => \E j \in 1 .. Len(got) : got[j] = r.id
        /\ pager.state = "done" =>
              /\ { got[i] : i \in 1 .. Len(got) } = { r.id : r \in matching }
              /\ Len(got) = Cardinality(matching)

\* C4 witness: three rows that share one occurred-at value were fetched one per
\* page, newest first, and the fourth, empty page ended the listing.
C4_Witness ==
    /\ pager.state = "done" /\ pager.limit = Some(1) /\ pager.sort = "newest"
    /\ Len(pager.got) = 3 /\ pager.pages = 4
    /\ \A r \in events : r.occurred_at = 1

\* the rows of pull-request lifecycle events; the backfill's payload embeds the
\* listed pull request, which carries its state, the poller's the feed's object
IsPRRow(r) == r.type \in {"pr_opened", "pr_closed", "pr_merged", "pr_reopened"}

FromBackfill(r) == "state" \in DOMAIN r.payload.pull_request

VersionPayload(c, k) ==
    IF k = 1
    THEN RawIssueCommentEvent("created", c, thread[c][1].body, "", 1).Payload
    ELSE RawIssueCommentEvent("edited", c, thread[c][k].body, thread[c][k - 1].body,
                              thread[c][k].at).Payload

IsCommentReaction(e) == e.type = "reaction" /\ e.comment_id # Null

\* C7: whatever the table holds, the vote views read from it (per pull request
\* up and down votes and vote details, each voter's totals, ups, downs and
\* pull requests voted on, the totals of votes and of distinct voters) are the
\* views of the table without its reactions on comments.
C7_CommentReactionsNotCounted ==
    last.op = "ReadVotes" =>
        last.arg.views = VoteViews({ e \in events : ~IsCommentReaction(e) })

\* C7 witness: the views were read from a table that holds an upvote on a
\* comment by a user who has no vote on a pull request.
C7_Witness ==
    /\ last.op = "ReadVotes"
    /\ \E e \in events :
          /\ IsCommentReaction(e) /\ e.choice = Some(1)
          /\ ~\E v \in events : v.github_user = e.github_user /\ v.pr_number # Null
    /\ \E v \in events : v.pr_number # Null /\ v.choice # Null

\* C8 as stated: once a response has reported a quota below the low-water mark
\* and a reset N minutes ahead, no request goes out before those N minutes are
\* over: every request is issued with no time left until an announced reset.
C8_NoRequestBeforeReset == poll.early = 0

\* C10: a pass of the event loop in which UpdateCommentEdit or DeleteByCommentID
\* was called for a comment no row has: the call returned the not-found error
\* (the database being reachable), the table is as it was, the breaker count
\* and the status are as they were, the status is "running", and the loop is
\* still in its cycle, ready for the next raw event.
C10_NotFoundNotEscalated ==
    [][ ( /\ poll.pc = "processing" /\ poll'.left = poll.left - 1
          /\ last'.op \in {"UpdateCommentEdit", "DeleteByCommentID"}
          /\ ~\E r \in events : r.comment_id = Some(last'.arg) )
        => /\ last'.dbUp => last'.err = "comment not found"
           /\ last'.err # "nil"
           /\ events' = events
           /\ poll'.dbErrors = poll.dbErrors
           /\ poll'.eventsStatus = "running"
           /\ poll'.pc = "processing" /\ poll'.dbErrors < 3 ]_vars

\* C10 witness: an edit of a comment that was never stored has just failed with
\* not-found, after an insert had failed; the cycle has an event left to go.
C10_Witness ==
    /\ last.op = "UpdateCommentEdit" /\ last.err = "comment not found" /\ last.arg = 2
    /\ poll.pc = "processing" /\ poll.eventsStatus = "running"
    /\ poll.left > 0 /\ poll.dbErrors = 1

(***************************************************************************)
(* C11.  Once any call of Stop has returned, and so by the time the        *)
(* server closes the database, all three poll loops have exited: no loop   *)
(* is left in a cycle to fetch or to write to the store.  This holds for   *)
(* the first caller, for a caller arriving while the first is still        *)
(* waiting, and for every later call.                                      *)
(***************************************************************************)
C11_StopReturnsAfterLoopsExit ==
    (life.returned \/ life.database = "closed")
        => \A l \in Loops : life.loop[l].pc = "exited"

\* both callers have returned from Stop, the loops had work done, the database
\* is closed
C11_Witness ==
    /\ \A c \in Callers : life.stop[c] = "returned"
    /\ \E l \in Loops : life.loop[l].work > 0
    /\ life.database = "closed"

(***************************************************************************)
(* C12.  After close(stopCh), a loop at its timer wait, whether it is      *)
(* parked in the select or has just arrived there, leaves the wait only    *)
(* by exiting: it does not begin another poll cycle.                       *)
(***************************************************************************)
C12_NoCycleAfterStop ==
    [][\A l \in Loops :
          (life.stopCh = "closed" /\ life.loop[l].pc \in {"select", "parked"})
              => life'.loop[l].pc \in {"select", "parked", "exited"}]_vars

(***************************************************************************)
(* C13.  After close(stopCh), a loop that is inside the backoff sleep or   *)
(* inside a network call does not go on with its cycle when that           *)
(* operation ends: the operation is cut short and the loop is on its way   *)
(* out, so Stop does not wait for the sleep or for the cycle's remaining   *)
(* requests.                                                               *)
(***************************************************************************)
C13_StopCancelsBlockingCall ==
    [][\A l \in Loops :
          (life.stopCh = "closed" /\ life.loop[l].pc \in {"sleeping", "fetching"})
              => life'.loop[l].pc \in {life.loop[l].pc, "select", "exited"}]_vars

(***************************************************************************)
(* C14.  The events loop's status is "running" only while a cycle is in    *)
(* progress: when the loop is between cycles the status is the initial     *)
(* one, ok after a completed cycle, or error after a failed fetch.         *)
(***************************************************************************)
C14_StatusNotRunningAfterCycle ==
    poll.pc = "idle" => poll.eventsStatus \in {"", "ok", "error"}

C16_BreakerStopsWrites ==
    [][/\ (reactions.pc # "idle" /\ reactions.dbErrors >= 3)
            => /\ reactions'.left = reactions.left
               /\ reactions'.polled = reactions.polled
       /\ (discussions.pc # "idle" /\ discussions.failed >= 3)
            => discussions'.left = discussions.left]_vars

(***************************************************************************)
(* C17.  A cycle that processes the batch the cycle before it has already  *)
(* processed in full leaves the table as it found it: the same rows with   *)
(* the same payloads, fingerprints and edit histories.                     *)
(***************************************************************************)
C17_RedeliveryChangesNothing ==
    delivery.cycles >= 2 => events = before

(***************************************************************************)
(* C18.  With Insert calls landing between the page requests of one        *)
(* traversal, no row id is handed out twice, and when the last page has    *)
(* come every matching row that was in the table before the first page     *)
(* request has been handed out exactly once.                               *)
(***************************************************************************)
C18_StableUnderInserts ==
    pager.state # "idle" =>
        LET got == pager.got IN
        /\ \A i, j \in 1 .. Len(got) : i < j => got[i] # got[j]
        /\ pager.state = "done" =>
              \A r \in before :
                  Matches(r, pager.filters) =>
                      Cardinality({ i \in 1 .. Len(got) : got[i] = r.id }) = 1

\* a traversal of three or more pages is over; rows were inserted meanwhile,
\* one of them was handed out and one, which sorts before the cursor, was not
C18_Witness ==
    /\ pager.state = "done" /\ pager.pages >= 3
    /\ before # {}
    /\ \E a, b \in events \ before :
          /\ Matches(a, pager.filters) /\ Matches(b, pager.filters)
          /\ \E i \in 1 .. Len(pager.got) : pager.got[i] = a.id
          /\ \A i \in 1 .. Len(pager.got) : pager.got[i] # b.id

(***************************************************************************)
(* C19.  No loop sends a request while a reset announced by a response     *)
(* with its quota below the low-water mark is still ahead: neither the     *)
(* events loop nor the reaction loop nor the discussion loop has sent a    *)
(* request before the reset.                                               *)
(***************************************************************************)
C19_NoLoopRequestsBeforeReset ==
    /\ reactions.early = 0
    /\ discussions.early = 0
    /\ poll.early = 0

(***************************************************************************)
(* C20.  What an export has written is at every moment a beginning of the  *)
(* matching rows in sort order, so no row is repeated; it is never more    *)
(* than the cap; the status stays 200 whatever ends the stream; every row  *)
(* written is flushed between pages and at the end; an export ended by an  *)
(* empty or short page is complete, one ended by the cap holds exactly the *)
(* cap; and every export that has begun to stream ends.                    *)
(***************************************************************************)
C20_ExportSafe ==
    export.state \in {"streaming", "done"} =>
        LET all == OrderBy({ e \in events : Matches(e, export.filters) }, export.sort)
            written == export.written
        IN /\ Len(written) <= maxExport
           /\ Len(written) <= Len(all)
           /\ \A i \in 1 .. Len(written) : written[i] = all[i].id
           /\ export.status = 200
           /\ export.flushed = Len(written)
           /\ export.state = "done" =>
                /\ export.end \in {"empty", "short", "cap", "deadline", "write", "query"}
                /\ export.end \in {"empty", "short"} => Len(written) = Len(all)
                /\ export.end = "cap" => Len(written) = maxExport

C20_ExportBoundedAndEnds ==
    /\ []C20_ExportSafe
    /\ (export.state = "streaming") ~> (export.state = "done")

\* an export of more matching rows than the cap, newest first, has ended at
\* the cap after two full pages
C20_Witness ==
    /\ export.state = "done" /\ export.end = "cap"
    /\ export.sort = "newest"
    /\ Len(export.written) = maxExport
    /\ Cardinality({ e \in events : Matches(e, export.filters) }) > maxExport

C23_PartialPagesIngested ==
    (/\ fetch.state = "returned"
     /\ fetch.endpoint \in {"events", "reactions", "discussions"}
     /\ fetch.failed
     /\ fetch.items > 0)
    => fetch.result = fetch.items /\ fetch.ingested = fetch.items

(***************************************************************************)
(* C24.  No pagination loop of the poll loops makes more page requests     *)
(* than the largest page cap, whatever the server answers.                 *)
(***************************************************************************)
C24_PageRequestsBounded == fetch.requests <= ReactionPages

(***************************************************************************)
(* C21.  The raw events an aborted event-feed cycle left unprocessed are   *)
(* processed by the next cycle whose fetch does not fail, if the database  *)
(* is up through it: the events they stand for are then in the table.      *)
(***************************************************************************)
C21_DeferredProcessedNextCycle ==
    (/\ intake.answer \in {"notModified", "changed"}
     /\ intake.owed # <<>>
     /\ \A i \in 1 .. Len(intake.up) : intake.up[i])
    => \A i \in 1 .. Len(intake.owed) :
          LET parsed == parseGitHubEvent(events, openPRs, intake.owed[i], TRUE)
          IN \A j \in 1 .. Len(parsed.events) :
                \E r \in events : r.github_id = parsed.events[j].github_id

(***************************************************************************)
(* C25.  Every cycle of the events loop sends the ETag it has saved; a     *)
(* cycle answered 304 leaves the table, openPRs and the saved ETag as they *)
(* were; a cycle whose fetch fails leaves the saved ETag as it was; and    *)
(* the saved ETag changes only to the non-empty ETag of a 200 answer.      *)
(***************************************************************************)
C25_ValidatorKept ==
    [][ intake'.feed = intake.feed =>
          /\ intake'.sent = intake.lastEventETag
          /\ intake'.answer = "notModified" =>
               /\ intake.lastEventETag # 0
               /\ events' = events /\ openPRs' = openPRs /\ last' = last
               /\ intake'.lastEventETag = intake.lastEventETag
          /\ intake'.answer = "error" =>
               /\ events' = events
               /\ intake'.lastEventETag = intake.lastEventETag
          /\ intake'.lastEventETag # intake.lastEventETag =>
               /\ intake'.answer = "changed"
               /\ intake'.lastEventETag = Len(intake.feed) + 1 ]_vars

\* a cycle has been answered 304 on the ETag saved from a changed answer that
\* brought rows into the table
C25_Witness ==
    /\ intake.answer = "notModified"
    /\ intake.sent = intake.lastEventETag /\ intake.sent # 0
    /\ events # {} /\ events = before

C27_OutcomeByAction ==
    norm.raw # Null =>
        LET payload == norm.raw.Payload
            commentID == payload.comment.id
        IN CASE payload.action = "created" ->
                  /\ Len(norm.events) = 1
                  /\ norm.events[1].comment_id = Some(commentID)
                  /\ norm.call.op = "none"
             [] payload.action = "edited" ->
                  /\ norm.events = <<>>
                  /\ norm.call.op = "UpdateCommentEdit" /\ norm.call.arg = commentID
             [] payload.action = "deleted" ->
                  /\ norm.events = <<>>
                  /\ norm.call.op = "DeleteByCommentID" /\ norm.call.arg = commentID
             [] OTHER -> norm.events = <<>> /\ norm.call.op = "none"


\* the target references set on a row
Targets(r) ==
    { f \in {"pr_number", "issue_number", "discussion_number"} : r[f] # Null }

\* C28: every row written by a producer has at most one of pr_number,
\* issue_number and discussion_number set, and every issue_comment row has
\* exactly one of pr_number and issue_number set: pr_number if its parent (the
\* issue of its payload) carries the pull_request marker or is a listed pull
\* request, issue_number otherwise.
C28_OneTarget ==
    \A r \in events :
        /\ Cardinality(Targets(r)) <= 1
        /\ r.type = "issue_comment" =>
             /\ Targets(r) \in {{"pr_number"}, {"issue_number"}}
             /\ "pull_request" \in DOMAIN r.payload.issue =>
                  (r.pr_number # Null <=> r.payload.issue.pull_request)


\* C29: in every row the choice is +1 exactly when the row is a reaction with
\* content "+1", -1 exactly when it is a reaction with content "-1", and absent
\* otherwise, so no row of another type carries a choice; and a reaction with
\* another content that Store.Insert has just written is in the table, with its
\* reaction_type and no choice.
C29_ChoiceFromContent ==
    /\ \A r \in events :
         /\ r.choice = Some(1) <=> (r.type = "reaction" /\ r.reaction_type = Some("+1"))
         /\ r.choice = Some(-1) <=> (r.type = "reaction" /\ r.reaction_type = Some("-1"))
         /\ r.choice \in {Null, Some(1), Some(-1)}
    /\ (/\ last.op = "Insert" /\ last.changed
        /\ last.arg.type = "reaction"
        /\ last.arg.reaction_type \notin {Some("+1"), Some("-1")})
       => \E r \in events :
            /\ r.id = last.ID[1] /\ r.type = "reaction"
            /\ r.reaction_type = last.arg.reaction_type /\ r.choice = Null

\* a reaction with content "heart" is stored next to a vote and a row of another type
C29_Witness ==
    /\ \E r \in events : r.type = "reaction" /\ r.reaction_type = Some("heart") /\ r.choice = Null
    /\ \E r \in events : r.choice # Null
    /\ last.op = "Insert" /\ last.changed /\ last.arg.reaction_type = Some("heart")


\* the place of an event in the order of one discussion: the discussion, its
\* comments, its reactions
DerivedRank(e) ==
    CASE e.type = "discussion_created" -> 0
      [] e.type = "discussion_comment" -> 1
      [] OTHER -> 2

\* the insert of discussion d's own event has been attempted in the cycle
OwnInsertTried(d) ==
    \E j \in 1 .. Len(discussions.tried) :
        /\ discussions.tried[j].type = "discussion_created"
        /\ discussions.tried[j].discussion_number = d

\* C30: at every point of a discussion poll cycle, the inserts attempted so
\* far are in the fixed order parent before children: a comment or a reaction
\* of a discussion comes after the attempt to insert the discussion itself,
\* the comments of a discussion come in the order of the answer and before its
\* reactions, which come in the order of the answer; so the table holds no
\* comment or reaction row written by the cycle for a discussion whose own
\* insert has not been attempted yet.
C30_ParentBeforeChildren ==
    LET tried == discussions.tried
    IN /\ \A i \in 1 .. Len(tried) :
            DerivedRank(tried[i]) > 0 =>
                \E j \in 1 .. i - 1 :
                    /\ tried[j].type = "discussion_created"
                    /\ tried[j].discussion_number = tried[i].discussion_number
       /\ \A i, j \in 1 .. Len(tried) :
            (i < j /\ tried[i].discussion_number = tried[j].discussion_number) =>
                /\ DerivedRank(tried[i]) <= DerivedRank(tried[j])
                /\ DerivedRank(tried[i]) = DerivedRank(tried[j]) =>
                     tried[i].github_id[1] < tried[j].github_id[1]
       /\ \A r \in events :
            (/\ \A b \in before : b.id # r.id
             /\ r.type \in {"discussion_comment", "reaction"})
            => OwnInsertTried(r.discussion_number)

\* the cycle stands between two inserts: it has written a comment or a reaction
\* of one discussion, and the insert of the next discussion is still to come
C30_Witness ==
    /\ discussions.pc = "draining"
    /\ \E r \in events :
         /\ \A b \in before : b.id # r.id
         /\ r.type \in {"discussion_comment", "reaction"}
    /\ \E k \in 1 .. Len(discussions.queue) :
         /\ discussions.queue[k].type = "discussion_created"
         /\ ~OwnInsertTried(discussions.queue[k].discussion_number)


\* the entries inserted or refreshed within the last ttl before now and not
\* evicted since
FreshEntries(now) == { pr \in cache.written : now - pr.CachedAt <= TTL }

\* C32: in every state reached by any order of UpdatePR, DeletePR, Clear,
\* CleanExpired, GetPR and GetOpenPRs, what GetPR and GetOpenPRs return is
\* exactly the entries inserted or refreshed within the last ttl and not evicted
\* since (GetOpenPRs those of state open), whether or not a sweep has run; and
\* CleanExpired removes exactly the entries that had expired and returns their
\* number.
C32_VisibleIsFresh ==
    /\ \A number \in PRNumbers :
         GetPRResult(cache.prs, number, cache.now) =
             IF \E pr \in FreshEntries(cache.now) : pr.Number = number
             THEN Some(CHOOSE pr \in FreshEntries(cache.now) : pr.Number = number)
             ELSE Null
    /\ GetOpenPRsResult(cache.prs, cache.now) =
           { pr \in FreshEntries(cache.now) : pr.State = "open" }
    /\ cache.ret.op = "GetPR" =>
         cache.ret.out =
             IF \E pr \in FreshEntries(cache.ret.at) : pr.Number = cache.ret.arg
             THEN Some(CHOOSE pr \in FreshEntries(cache.ret.at) : pr.Number = cache.ret.arg)
             ELSE Null
    /\ cache.ret.op = "GetOpenPRs" =>
         cache.ret.out = { pr \in FreshEntries(cache.ret.at) : pr.State = "open" }
    /\ cache.ret.op = "CleanExpired" =>
         /\ cache.prs = { pr \in cache.ret.had : cache.ret.at - pr.CachedAt <= TTL }
         /\ cache.ret.out =
              Cardinality({ pr \in cache.ret.had : cache.ret.at - pr.CachedAt > TTL })

\* GetPR has missed an entry that has expired and that no sweep has removed
\* yet, after a sweep that removed another entry and kept a fresh one
C32_Witness ==
    /\ cache.ret.op = "GetPR" /\ cache.ret.out = Null
    /\ \E pr \in cache.prs : pr.Number = cache.ret.arg /\ cache.now - pr.CachedAt > TTL
    /\ \E pr \in cache.prs : cache.now - pr.CachedAt <= TTL


\* the numbers the cache reports as open
ReportedOpen(c) == { pr.Number : pr \in GetOpenPRsResult(c.prs, c.now) }

\* C31: when the events loop has processed an opened or reopened pull request
\* event of n, n is tracked as open; when it has processed a closed event of
\* n, n is no longer tracked and the cache no longer reports n as open, expired
\* or not.
C31_TrackingFollowsLifecycle ==
    [][ (norm' # norm /\ norm'.raw.Type = "PullRequestEvent") =>
          LET action == norm'.raw.Payload.action
              n == norm'.raw.Payload.number
          IN /\ action \in {"opened", "reopened"} => n \in openPRs'
             /\ action = "closed" => n \notin openPRs' /\ n \notin ReportedOpen(cache') ]_vars


\* C33: when the events loop has processed a lifecycle event (opened, closed,
\* merged, reopened) of a pull request or of an issue, the table holds a row of
\* that event: its type, of that item; the event is not dropped because
\* another transition of the same item is stored.
C33_EveryTransitionStored ==
    [][ (/\ norm' # norm
         /\ norm'.raw.Type \in {"PullRequestEvent", "IssuesEvent"}
         /\ Len(norm'.events) = 1)
        => \E r \in events' :
             /\ r.type = norm'.events[1].type
             /\ r.pr_number = norm'.events[1].pr_number
             /\ r.issue_number = norm'.events[1].issue_number ]_vars


\* C34: when a discussion poll cycle has handed the event of a fetched
\* discussion, comment or reaction to Store.Insert with the database up, the
\* table holds a row of it: its type, its discussion, its number; it is not
\* dropped because a child of another discussion at the same position, or the
\* discussion of that number, is stored.
C34_ChildrenStoredIndependently ==
    [][ (/\ Len(discussions'.tried) = Len(discussions.tried) + 1
         /\ last'.op = "Insert" /\ last'.dbUp)
        => LET n == discussions'.tried[Len(discussions'.tried)]
           IN \E r \in events' :
                /\ r.type = n.type
                /\ r.discussion_number = n.discussion_number
                /\ r.github_id = n.github_id ]_vars


\* the types of the comment events
CommentTypes == {"issue_comment", "review_comment", "commit_comment", "discussion_comment"}

\* C35: a call of UpdateCommentEdit for comment c leaves every row that is not
\* the comment event of c as it was (payload, content_hash and edit_history
\* included), reactions whose comment_id is c among them, and changes at most
\* one row.
C35_EditChangesOnlyTheComment ==
    [][ last'.op = "UpdateCommentEdit" =>
          /\ \A r \in events :
               (r.type \notin CommentTypes \/ r.comment_id # Some(last'.arg)) => r \in events'
          /\ Cardinality(events \ events') <= 1 ]_vars


\* the batch holds the deleted event of comment c
DeletionDelivered(batch, c) ==
    \E i \in 1 .. Len(batch) :
        /\ batch[i].Type = "IssueCommentEvent"
        /\ batch[i].Payload.action = "deleted"
        /\ batch[i].Payload.comment.id = c

\* C36: at the end of a cycle of the events loop whose batch held the deleted
\* event of comment c, and at the end of the cycle after it, the table holds no
\* comment row of c, in whatever order the batches list the events of c.
C36_DeletionPermanent ==
    [][ \A c \in CommentIDs :
          (DeletionDelivered(delivery'.batch, c) \/ DeletionDelivered(delivery.batch, c))
          => ~\E r \in events' : r.type \in CommentTypes /\ r.comment_id = Some(c) ]_vars


\* C37: a traversal during which rows are only deleted, its cursor row among
\* them, has returned every matching row that is still in the table when it
\* ends: it does not end early and skips no row.
C37_TraversalSurvivesDeletion ==
    pager.state = "done" =>
        \A r \in events :
            Matches(r, pager.filters) => \E i \in 1 .. Len(pager.got) : pager.got[i] = r.id


\* C38: in every state of the table the leaderboard has one entry per voter
\* handle, as many entries as the stats count distinct voters, and the summary
\* of a handle is that handle's leaderboard entry, whichever producers wrote
\* the votes.
C38_VoterViewsAgree ==
    /\ \A a, b \in GetVoters(events) : a.GitHubUser = b.GitHubUser => a = b
    /\ Cardinality(GetVoters(events)) = GetStats(events).TotalVoters
    /\ \A u \in Users :
         /\ Cardinality(GetVoter(events, u)) <= 1
         /\ GetVoter(events, u) = { v \in GetVoters(events) : v.GitHubUser = u }


\* the calls of Allow for key that read a time.Now() in [from, from + window)
\* and returned true at a time in it
AllowedWithin(key, from) ==
    { i \in 1 .. Len(limiter.allowed) :
        /\ limiter.allowed[i].key = key
        /\ limiter.allowed[i].now >= from
        /\ limiter.allowed[i].at >= from
        /\ limiter.allowed[i].at < from + RateWindow }

\* when a call of Allow or the cleanup is inside, one of them can step
LimiterCanStep ==
    (\E t \in Goroutines : limiter.call[t].pc \notin {"idle", "returned"})
      \/ limiter.cleanup.pc = "range"
    => ENABLED ( \/ \E t \in Goroutines :
                      AllowLockMap(t) \/ AllowLookup(t) \/ AllowLockWindow(t)
                      \/ AllowDecide(t)
                 \/ \E key \in ClientKeys : CleanupVisit(key)
                 \/ CleanupEnd )

\* C39: for every client key, under every interleaving of calls of Allow and
\* the cleanup, no interval of one window length has more calls of Allow
\* returning true than the limit, and Allow and cleanup never block each other
\* for good.
C39_LimitHolds ==
    /\ \A key \in ClientKeys, from \in 0 .. MaxClock :
         Cardinality(AllowedWithin(key, from)) <= RateLimit
    /\ LimiterCanStep


\* the slots taken are those of the handlers that run, never more than the
\* semaphore has, all free when no handler runs; the select never waits
ExportSlotsInv ==
    /\ guard.slots <= ExportSlots
    /\ guard.slots = Cardinality({ t \in Goroutines : guard.req[t].held })
    /\ \A t \in Goroutines : guard.req[t].held <=> guard.req[t].pc = "serving"
    /\ (\A t \in Goroutines : guard.req[t].pc # "serving") => guard.slots = 0
    /\ \A t \in Goroutines :
         guard.req[t].pc = "allow" /\ limiter.call[t].pc = "returned"
           => ENABLED ExportGuardSelect(t)

\* what a step of the middleware does to the semaphore
ExportGuardStep ==
    \A t \in Goroutines :
      /\ guard.req[t].pc = "allow" /\ guard'.req[t].pc # "allow"
           => IF ~limiter.call[t].out
              THEN /\ guard'.req[t].pc = "done" /\ guard'.req[t].status = 429
                   /\ guard'.slots = guard.slots /\ ~guard'.req[t].held
              ELSE IF guard.slots = ExportSlots
              THEN /\ guard'.req[t].pc = "done" /\ guard'.req[t].status = 503
                   /\ guard'.slots = guard.slots /\ ~guard'.req[t].held
              ELSE /\ guard'.req[t].pc = "serving"
                   /\ guard'.slots = guard.slots + 1 /\ guard'.req[t].held
      /\ guard.req[t].pc = "serving" /\ guard'.req[t].pc # "serving"
           => /\ guard'.slots = guard.slots - 1
              /\ ~guard'.req[t].held

\* C40: at most 3 export handlers run at a time; a request Allow refuses is
\* answered 429 and takes no slot, a request that finds all 3 slots taken is
\* answered 503 at once and takes none, and the slot of a request is given back
\* when its handler returns, whatever the outcome, so that all slots are free
\* when no export runs.
C40_ExportGuard == []ExportSlotsInv /\ [][ExportGuardStep]_vars

\* all slots were taken and a request answered 503, another was refused by the
\* limiter, a handler has returned, and no export runs any more
C40_Witness ==
    /\ \E t, u, v \in Goroutines :
         /\ guard.req[t].pc = "done" /\ guard.req[t].status = 503
         /\ guard.req[u].pc = "done" /\ guard.req[u].status = 429
         /\ guard.req[v].pc = "done" /\ guard.req[v].status \in {200, 400}
    /\ \A t \in Goroutines : guard.req[t].pc \in {"idle", "done"}
    /\ guard.slots = 0

====
